---- MODULE Spec2Model ----
(***************************************************************************)
(* Session registry, tournament bracket engine and result arbitration of   *)
(* the Whot game server: the socket handlers of the server entry point     *)
(* and the TournamentManager class, as a state machine.                    *)
(*                                                                         *)
(* Every action is one socket.io event handler (or one timer callback)     *)
(* run to completion: Node runs handlers one at a time.                    *)
(***************************************************************************)
EXTENDS Integers, Sequences, FiniteSets, TLC

VARIABLES
    tournaments,  \* TournamentManager.tournaments: Map id -> tournament
    tTimers,      \* pending 10-minute cleanup timers, per tournament id
    rooms,        \* the rooms array
    rTimers,      \* pending 1-second room cleanup timers, per room id
    subs,         \* socket.io room membership: pairs <<socket id, room id>>
    out,          \* what the last handler emitted or called, in order
    users,        \* the users table: address -> row
    inserting     \* calls of createUserIfNotExists that found no row and have
                  \* their INSERT ahead: how many, per address

vars == <<tournaments, tTimers, rooms, rTimers, subs, out, users, inserting>>

(***************************************************************************)
(* Bounds and input sets                                                   *)
(***************************************************************************)
\* pending cleanup timers kept per tournament id (setTimeout calls not yet fired)
MaxTournamentTimers == 1
\* pending cleanup timers kept per room id
MaxRoomTimers == 1

\* stored identities clients may present, one of them longer than the 4
\* characters a default name takes of it
StoredIds == {"A", "B", "C", "DELTA"}
\* an identity that never joins a tournament
Outsider == "X"
\* connection ids (socket.id)
Sockets == {"s1", "s2", "s3"}
\* outcomes of Math.random().toString(36).substring(2, 8).toUpperCase(): the
\* digits after "0." of the number in base 36, which are none when
\* Math.random() yields 0
TIds == {"", "T1"}
\* those of them that are truthy
LongIds == {"T1"}
\* outcomes of Math.random().toString(36).substring(2, 6).toUpperCase(): none
\* for 0, one for 0.5 ("0.i"), four for most numbers
Codes == {"", "I", "AAAA", "BBBB"}
\* those of them that have four characters, which join_room asks of a room id
RoomIds == {"AAAA", "BBBB"}
\* tournament sizes a client may ask for (after parseInt)
Sizes == {1, 2, 4}

(***************************************************************************)
(* JavaScript values                                                       *)
(***************************************************************************)
Null == [kind |-> "null"]
Undefined == [kind |-> "undefined"]
\* a missing string field of a payload (undefined), which is falsy
Missing == ""
\* a match without roomCode: the property is absent, which is falsy
NoCode == ""

Player(sid, sock, nm) ==
    [kind |-> "player", storedId |-> sid, socketId |-> sock, name |-> nm]

\* truthiness of a value that is null, undefined or an object
Truthy(v) == v.kind = "player"

\* Array.prototype.find on an array of objects: the first match or undefined
RECURSIVE FindFrom(_, _, _)
FindFrom(seq, Test(_), i) ==
    IF i > Len(seq) THEN Undefined
    ELSE IF Test(seq[i]) THEN seq[i]
    ELSE FindFrom(seq, Test, i + 1)

Find(seq, Test(_)) == FindFrom(seq, Test, 1)

\* seq[i] for a zero-based index, undefined past the end
At(seq, i) == IF i < Len(seq) THEN seq[i + 1] ELSE Undefined

\* s.substr(0, n): the first n characters of s, all of s when it is shorter
Substr(s, n) == SubSeq(s, 1, IF Len(s) < n THEN Len(s) ELSE n)

RECURSIVE Pow2(_)
Pow2(n) == IF n <= 0 THEN 1 ELSE 2 * Pow2(n - 1)

RECURSIVE Flatten(_)
Flatten(ss) == IF ss = <<>> THEN <<>> ELSE Head(ss) \o Flatten(Tail(ss))

(***************************************************************************)
(* TournamentManager                                                       *)
(***************************************************************************)
\* `${tournament.id}_r${round}_m${index}`
MatchId(tid, round, idx) == [t |-> tid, r |-> round, m |-> idx]

NoMatchId == [t |-> Missing, r |-> 0, m |-> 0]

CreateTournamentObj(id, size, name) ==
    [id |-> id, name |-> name, size |-> size, players |-> <<>>,
     status |-> "waiting", round |-> 1, matches |-> <<>>, winner |-> Null]

\* the payload of tournament_update is getPublicTournamentState(tournament)
EmitUpdate(t) == [ev |-> "tournament_update", to |-> "all", tid |-> t.id]

\* a match notifyMatchReady acts on
IsActiveMatch(t, m) == m.round = t.round /\ ~Truthy(m.winner)

\* whether notifyMatchReady generates a room code for match i of t
NeedsCode(t, i) ==
    LET m == t.matches[i]
    IN IsActiveMatch(t, m) /\ Truthy(m.p1) /\ Truthy(m.p2) /\ m.roomCode = NoCode


\* rc[k] is the k-th value Math.random() yields during the call
NotifyMatchReady(t, rc) ==
    LET nth(i) == Cardinality({j \in 1..i : NeedsCode(t, j)})
        ms == [i \in 1..Len(t.matches) |->
                IF NeedsCode(t, i)
                THEN [t.matches[i] EXCEPT !.roomCode = rc[nth(i)]]
                ELSE t.matches[i]]
        payload(m, sock, opp) ==
            [ev |-> "tournament_match_ready", to |-> sock, roomId |-> m.roomCode,
             matchId |-> m.id, opponent |-> opp, tournamentId |-> t.id]
        emits(i) == LET m == ms[i] IN
            IF IsActiveMatch(t, m) /\ Truthy(m.p1) /\ Truthy(m.p2)
            THEN << payload(m, m.p1.socketId, m.p2.name),
                    payload(m, m.p2.socketId, m.p1.name) >>
            ELSE <<>>
    IN [t |-> [t EXCEPT !.matches = ms],
        out |-> Flatten([i \in 1..Len(ms) |-> emits(i)])]

\* generateMatches seating each pair the other way round
GenerateMatches_SeatsSwapped(t) ==
    IF t.round = 1
    THEN [t EXCEPT !.matches = t.matches \o
            [j \in 1..((t.size + 1) \div 2) |->
                [id |-> MatchId(t.id, 1, j - 1),
                 p1 |-> IF 2 * (j - 1) + 1 < Len(t.players)
                        THEN At(t.players, 2 * (j - 1) + 1) ELSE Null,
                 p2 |-> At(t.players, 2 * (j - 1)),
                 winner |-> Null, round |-> 1, roomCode |-> NoCode]]]
    ELSE t

\* the matches generateMatches pushes, pairing the players in the order of
\* tournament.players
GenerateMatches(t) ==
    IF t.round = 1
    THEN [t EXCEPT !.matches = t.matches \o
            [j \in 1..((t.size + 1) \div 2) |->
                [id |-> MatchId(t.id, 1, j - 1),
                 p1 |-> At(t.players, 2 * (j - 1)),
                 p2 |-> IF 2 * (j - 1) + 1 < Len(t.players)
                        THEN At(t.players, 2 * (j - 1) + 1) ELSE Null,
                 winner |-> Null, round |-> 1, roomCode |-> NoCode]]]
    ELSE t

\* startTournament left for a later handler: the filling join changes nothing more
StartTournament_Deferred(t, rc) == [t |-> t, out |-> <<>>]

StartTournament(t, rc) ==
    LET started == GenerateMatches([t EXCEPT !.status = "active"])
        nmr == NotifyMatchReady(started, rc)
    IN [t |-> nmr.t, out |-> <<EmitUpdate(started)>> \o nmr.out]

\* reconnectTournament without the forEach over the matches
ReconnectTournament_PlayersOnly(t, player) ==
    LET same(p) == p.storedId = player.storedId
        existing == Find(t.players, same)
        updated == [existing EXCEPT !.socketId = player.socketId]
        t2 == [t EXCEPT
                !.players = [i \in 1..Len(t.players) |->
                                IF same(t.players[i]) THEN updated ELSE t.players[i]]]
    IN IF Truthy(existing)
       THEN [t |-> t2, ok |-> TRUE, msg |-> "", out |-> <<EmitUpdate(t2)>>]
       ELSE [t |-> t, ok |-> FALSE, msg |-> "Player not a participant", out |-> <<>>]

ReconnectTournament(t, player) ==
    LET same(p) == p.storedId = player.storedId
        existing == Find(t.players, same)
        updated == [existing EXCEPT !.socketId = player.socketId]
        swap(v) == IF Truthy(v) /\ v.storedId = player.storedId THEN updated ELSE v
        t2 == [t EXCEPT
                !.players = [i \in 1..Len(t.players) |->
                                IF same(t.players[i]) THEN updated ELSE t.players[i]],
                !.matches = [i \in 1..Len(t.matches) |->
                                [t.matches[i] EXCEPT !.p1 = swap(@), !.p2 = swap(@),
                                                     !.winner = swap(@)]]]
    IN IF Truthy(existing)
       THEN [t |-> t2, ok |-> TRUE, msg |-> "", out |-> <<EmitUpdate(t2)>>]
       ELSE [t |-> t, ok |-> FALSE, msg |-> "Player not a participant", out |-> <<>>]

\* joinTournament without the test that sends a known storedId to
\* reconnectTournament
JoinTournament_NoRejoinCheck(t, player, rc) ==
    LET joined == [t EXCEPT !.players = Append(t.players, player)]
        st == StartTournament(joined, rc)
    IN IF t.status # "waiting"
       THEN [t |-> t, ok |-> FALSE, msg |-> "Tournament already started", out |-> <<>>]
       ELSE IF Len(t.players) >= t.size
       THEN [t |-> t, ok |-> FALSE, msg |-> "Tournament full", out |-> <<>>]
       ELSE IF Len(joined.players) = joined.size
       THEN [t |-> st.t, ok |-> TRUE, msg |-> "", out |-> <<EmitUpdate(joined)>> \o st.out]
       ELSE [t |-> joined, ok |-> TRUE, msg |-> "", out |-> <<EmitUpdate(joined)>>]

\* joinTournament without the test of tournament.status
JoinTournament_NoStatusCheck(t, player, rc) ==
    LET same(p) == p.storedId = player.storedId
        joined == [t EXCEPT !.players = Append(t.players, player)]
        st == StartTournament(joined, rc)
    IN IF \E i \in 1..Len(t.players) : same(t.players[i])
       THEN ReconnectTournament(t, player)
       ELSE IF Len(t.players) >= t.size
       THEN [t |-> t, ok |-> FALSE, msg |-> "Tournament full", out |-> <<>>]
       ELSE IF Len(joined.players) = joined.size
       THEN [t |-> st.t, ok |-> TRUE, msg |-> "", out |-> <<EmitUpdate(joined)>> \o st.out]
       ELSE [t |-> joined, ok |-> TRUE, msg |-> "", out |-> <<EmitUpdate(joined)>>]

JoinTournament(t, player, rc) ==
    LET same(p) == p.storedId = player.storedId
        joined == [t EXCEPT !.players = Append(t.players, player)]
        st == StartTournament(joined, rc)
    IN IF \E i \in 1..Len(t.players) : same(t.players[i])
       THEN ReconnectTournament(t, player)
       ELSE IF t.status # "waiting"
       THEN [t |-> t, ok |-> FALSE, msg |-> "Tournament already started", out |-> <<>>]
       ELSE IF Len(t.players) >= t.size
       THEN [t |-> t, ok |-> FALSE, msg |-> "Tournament full", out |-> <<>>]
       ELSE IF Len(joined.players) = joined.size
       THEN [t |-> st.t, ok |-> TRUE, msg |-> "", out |-> <<EmitUpdate(joined)>> \o st.out]
       ELSE [t |-> joined, ok |-> TRUE, msg |-> "", out |-> <<EmitUpdate(joined)>>]

\* the matches of the tournament's current round, in order
CurrentRoundMatches(t) == SelectSeq(t.matches, LAMBDA m : m.round = t.round)

\* the matches round r2 gets from the winners of the round before
NextRoundMatches(tid, r2, winners) ==
    [j \in 1..((Len(winners) + 1) \div 2) |->
        [id |-> MatchId(tid, r2, j - 1),
         p1 |-> At(winners, 2 * (j - 1)),
         p2 |-> IF 2 * (j - 1) + 1 < Len(winners)
                THEN At(winners, 2 * (j - 1) + 1) ELSE Null,
         winner |-> Null, round |-> r2, roomCode |-> NoCode]]

AdvanceRound(t, rc) ==
    LET cur == CurrentRoundMatches(t)
        allFinished == \A i \in 1..Len(cur) : cur[i].winner # Null
        winners == SelectSeq([i \in 1..Len(cur) |-> cur[i].winner], LAMBDA w : w # Null)
        done == [t EXCEPT !.status = "completed", !.winner = winners[1]]
        next == [t EXCEPT !.round = t.round + 1,
                    !.matches = t.matches \o NextRoundMatches(t.id, t.round + 1, winners)]
        nmr == NotifyMatchReady(next, rc)
    IN IF ~allFinished
       THEN [t |-> t, timer |-> FALSE, out |-> <<EmitUpdate(t)>>]
       ELSE IF Len(winners) = 1 /\ Pow2(t.round) >= t.size
       THEN [t |-> done, timer |-> TRUE, out |-> <<EmitUpdate(done)>>]
       ELSE [t |-> nmr.t, timer |-> FALSE, out |-> <<EmitUpdate(next)>> \o nmr.out]

\* the index of the first match with this id, 0 when there is none
MatchIndex(t, mid) ==
    IF \E i \in 1..Len(t.matches) : t.matches[i].id = mid
    THEN CHOOSE i \in 1..Len(t.matches) :
            /\ t.matches[i].id = mid
            /\ \A j \in 1..(i - 1) : t.matches[j].id # mid
    ELSE 0

\* reportMatchResult without its "already reported" return
ReportMatchResult_Overwrites(ts, tid, mid, winnerStoredId, rc) ==
    LET nothing == [ts |-> ts, timer |-> FALSE, out |-> <<>>]
    IN IF tid \notin DOMAIN ts THEN nothing
       ELSE LET t == ts[tid]
                i == MatchIndex(t, mid)
            IN IF i = 0 THEN nothing
               ELSE LET winner == Find(t.players, LAMBDA p : p.storedId = winnerStoredId)
                        t2 == [t EXCEPT !.matches[i].winner = winner]
                        adv == AdvanceRound(t2, rc)
                    IN [ts |-> [ts EXCEPT ![tid] = adv.t],
                        timer |-> adv.timer, out |-> adv.out]

\* reportMatchResult on the tournament map ts: the new map, whether a cleanup
\* timer was scheduled, and the emissions
ReportMatchResult(ts, tid, mid, winnerStoredId, rc) ==
    LET nothing == [ts |-> ts, timer |-> FALSE, out |-> <<>>]
    IN IF tid \notin DOMAIN ts THEN nothing
       ELSE LET t == ts[tid]
                i == MatchIndex(t, mid)
            IN IF i = 0 THEN nothing
               ELSE IF Truthy(t.matches[i].winner) THEN nothing
               ELSE LET winner == Find(t.players, LAMBDA p : p.storedId = winnerStoredId)
                        t2 == [t EXCEPT !.matches[i].winner = winner]
                        adv == AdvanceRound(t2, rc)
                    IN [ts |-> [ts EXCEPT ![tid] = adv.t],
                        timer |-> adv.timer, out |-> adv.out]


(***************************************************************************)
(* Emissions                                                               *)
(***************************************************************************)
\* socket.emit / io.to(socketId).emit: one connection
ToSocket(sock, ev, payload) == [ev |-> ev, to |-> sock, payload |-> payload]

\* io.emit: every connection
ToAll(ev) == [ev |-> ev, to |-> "all"]

\* the connections subscribed to a room's topic
Subscribers(room_id) == {k \in Sockets : <<k, room_id>> \in subs}

\* io.to(room_id).emit: every subscriber of the topic
ToRoom(room_id, ev, payload) ==
    [ev |-> ev, room |-> room_id, rcpt |-> Subscribers(room_id), payload |-> payload]

\* a call of the persistence collaborator, fire-and-forget
UpdateUserXP(address, xp, isWin) ==
    [ev |-> "updateUserXP", address |-> address, xp |-> xp, isWin |-> isWin]

\* the Map after set(id, value)
MapSet(map, id, value) ==
    [x \in DOMAIN map \cup {id} |-> IF x = id THEN value ELSE map[x]]

\* the Map after delete(id)
MapDelete(map, id) == [x \in DOMAIN map \ {id} |-> map[x]]

\* the values Math.random() may yield in one call of notifyMatchReady: a round
\* of the largest tournament has MaxNewCodes matches
MaxNewCodes == (CHOOSE n \in Sizes : \A x \in Sizes : x <= n) \div 2

CodeDraws == [1..MaxNewCodes -> Codes]

\* the draws of a call that does not reach Math.random()
NoDraw == [k \in 1..MaxNewCodes |-> CHOOSE c \in RoomIds : TRUE]

\* the draws of a call that reaches Math.random() n times: the values past the
\* n-th are never read
Draws(n) == {rc \in CodeDraws : \A k \in (n + 1)..MaxNewCodes : rc[k] = NoDraw[k]}

\* how many matches got their room code between tournament states t0 and t1
CodesDrawn(t0, t1) ==
    Cardinality({i \in 1..Len(t1.matches) :
                    /\ t1.matches[i].roomCode # NoCode
                    /\ i <= Len(t0.matches) => t0.matches[i].roomCode = NoCode})

\* how many room codes the handler's call f (a function of the draws, giving
\* the tournament map) generates for tournament tid
MapDraws(ts, tid, f(_)) ==
    IF tid \in DOMAIN ts /\ tid \in DOMAIN f(NoDraw)
    THEN CodesDrawn(ts[tid], f(NoDraw)[tid])
    ELSE 0

\* the emissions and calls of a handler that a specification observes: those
\* whose kind is in obs
Observed(obs, emitted) == SelectSeq(emitted, LAMBDA e : e.ev \in obs)

Emit(obs, emitted) == out' = Observed(obs, emitted)

(***************************************************************************)
(* Tournament handlers                                                     *)
(***************************************************************************)
\* socket.on("create_tournament"): id is the random id drawn by the handler;
\* a missing or empty name becomes `Tournament ${id}`
CreateTournament(obs, id, size, name) ==
    /\ LET nm == IF name = Missing THEN "Tournament " \o id ELSE name
       IN tournaments' = MapSet(tournaments, id, CreateTournamentObj(id, size, nm))
    /\ Emit(obs, <<ToAll("tournaments_list")>>)
    /\ UNCHANGED <<tTimers, rooms, rTimers, subs, users, inserting>>

\* socket.on("join_tournament") from connection sock
JoinTournamentEv(obs, sock, tid, storedId, name) ==
    /\ IF storedId = Missing
       THEN /\ Emit(obs, <<ToSocket(sock, "error", "Failed to join: Missing Player ID")>>)
            /\ UNCHANGED tournaments
       ELSE IF tid \notin DOMAIN tournaments
       THEN /\ Emit(obs, <<ToSocket(sock, "error", "Tournament not found")>>)
            /\ UNCHANGED tournaments
       ELSE LET nm == IF name = Missing THEN "Player " \o Substr(storedId, 4) ELSE name
                player == Player(storedId, sock, nm)
                n == CodesDrawn(tournaments[tid],
                                JoinTournament(tournaments[tid], player, NoDraw).t)
            IN \E rc \in Draws(n) :
            LET r == JoinTournament(tournaments[tid], player, rc)
            IN IF r.ok
               THEN /\ tournaments' = [tournaments EXCEPT ![tid] = r.t]
                    /\ Emit(obs, r.out \o <<ToSocket(sock, "tournament_joined", tid),
                                         ToAll("tournaments_list")>>)
               ELSE /\ Emit(obs, r.out \o <<ToSocket(sock, "error", r.msg)>>)
                    /\ UNCHANGED tournaments
    /\ UNCHANGED <<tTimers, rooms, rTimers, subs, users, inserting>>

\* socket.on("reconnect_tournament") from connection sock
ReconnectTournamentEv(obs, sock, tid, storedId) ==
    /\ IF tid \notin DOMAIN tournaments
       THEN /\ Emit(obs, <<>>)
            /\ UNCHANGED tournaments
       ELSE LET r == ReconnectTournament(tournaments[tid],
                                         [storedId |-> storedId, socketId |-> sock])
            IN /\ tournaments' = [tournaments EXCEPT ![tid] = r.t]
               /\ Emit(obs, r.out)
    /\ UNCHANGED <<tTimers, rooms, rTimers, subs, users, inserting>>


\* requestMatchInfo(socket, tournamentId, matchId)
RequestMatchInfo(ts, sock, tid, mid, rc) ==
    IF tid \notin DOMAIN ts THEN [ts |-> ts, out |-> <<>>]
    ELSE LET t == ts[tid]
             i == MatchIndex(t, mid)
         IN IF i = 0 THEN [ts |-> ts, out |-> <<>>]
            ELSE LET m == t.matches[i]
                     nmr == NotifyMatchReady(t, rc)
                 IN IF m.roomCode # NoCode
                    THEN [ts |-> ts,
                          out |-> << [ev |-> "tournament_match_ready", to |-> sock,
                                      roomId |-> m.roomCode, matchId |-> m.id,
                                      opponent |-> IF m.p1.socketId = sock
                                                   THEN m.p2.name ELSE m.p1.name,
                                      tournamentId |-> t.id] >>]
                    ELSE [ts |-> [ts EXCEPT ![tid] = nmr.t], out |-> nmr.out]

\* socket.on("request_match_info") from connection sock
RequestMatchInfoEv(obs, sock, tid, mid) ==
    /\ \E rc \in Draws(MapDraws(tournaments, tid,
                    LAMBDA d : RequestMatchInfo(tournaments, sock, tid, mid, d).ts)) :
        LET r == RequestMatchInfo(tournaments, sock, tid, mid, rc)
        IN /\ tournaments' = r.ts
           /\ Emit(obs, r.out)
    /\ UNCHANGED <<tTimers, rooms, rTimers, subs, users, inserting>>

\* the callback of the setTimeout of advanceRound, 10 minutes after completion
TournamentCleanup(obs, tid) ==
    /\ tTimers[tid] > 0
    /\ tTimers' = [tTimers EXCEPT ![tid] = @ - 1]
    /\ IF tid \in DOMAIN tournaments
       THEN /\ tournaments' = MapDelete(tournaments, tid)
            /\ Emit(obs, <<ToAll("tournaments_list")>>)
       ELSE /\ Emit(obs, <<>>)
            /\ UNCHANGED tournaments
    /\ UNCHANGED <<rooms, rTimers, subs, users, inserting>>


(***************************************************************************)
(* Session registry                                                        *)
(***************************************************************************)
\* initializeDeck(): the deal, reduced to the two hands
InitializeDeck == [userCards |-> <<"c1">>, opponentCards |-> <<"c2">>]

\* reverseState giving the other seat the opponent's hand without taking its own
ReverseState_OneWay(s) ==
    [s EXCEPT !.userCards = s.opponentCards,
              !.whoIsToPlay = IF s.whoIsToPlay = "user" THEN "opponent" ELSE "user"]

\* reverseState(state): the state as the other seat sees it
ReverseState(s) ==
    [s EXCEPT !.userCards = s.opponentCards,
              !.opponentCards = s.userCards,
              !.whoIsToPlay = IF s.whoIsToPlay = "user" THEN "opponent" ELSE "user"]

\* a participant record of a room
RoomPlayer(storedId, sock, seat) ==
    [kind |-> "player", storedId |-> storedId, socketId |-> sock, player |-> seat]

\* a new room whose first player is given seat "two"
NewRoom_SeatTwo(room_id, storedId, sock, isTournament, tournamentId, matchId) ==
    [room_id |-> room_id,
     isTournament |-> isTournament,
     tournamentId |-> tournamentId,
     matchId |-> matchId,
     messages |-> <<>>,
     players |-> <<RoomPlayer(storedId, sock, "two")>>,
     playerOneState |->
        [userCards |-> InitializeDeck.userCards,
         opponentCards |-> InitializeDeck.opponentCards,
         whoIsToPlay |-> "user",
         player |-> "one"]]

\* the room join_room pushes for an unseen room_id
NewRoom(room_id, storedId, sock, isTournament, tournamentId, matchId) ==
    [room_id |-> room_id,
     isTournament |-> isTournament,
     tournamentId |-> tournamentId,
     matchId |-> matchId,
     messages |-> <<>>,
     players |-> <<RoomPlayer(storedId, sock, "one")>>,
     playerOneState |->
        [userCards |-> InitializeDeck.userCards,
         opponentCards |-> InitializeDeck.opponentCards,
         whoIsToPlay |-> "user",
         player |-> "one"]]

InvalidLink == "Sorry! Seems like this game link is invalid. Just go back and start your own game."
RoomFull == "Sorry! There are already two players on this game, just go back and start your own game."

\* socket.broadcast.to(room_id).emit: the topic's subscribers but the sender
Broadcast(sock, room_id, ev, subscribed) ==
    [ev |-> ev, room |-> room_id,
     rcpt |-> {k \in Sockets : <<k, room_id>> \in subscribed} \ {sock}, payload |-> ""]

\* rooms.find(room => room.room_id == room_id), as an index: 0 when none
RoomIndex(rs, room_id) ==
    IF \E i \in 1..Len(rs) : rs[i].room_id = room_id
    THEN CHOOSE i \in 1..Len(rs) :
            /\ rs[i].room_id = room_id
            /\ \A j \in 1..(i - 1) : rs[j].room_id # room_id
    ELSE 0

\* rooms.map(...) replacing the players of every room with this room_id
WithPlayers(rs, room_id, players) ==
    [i \in 1..Len(rs) |->
        IF rs[i].room_id = room_id THEN [rs[i] EXCEPT !.players = players] ELSE rs[i]]

\* join_room seating an unknown storedId in a room that already has two players
JoinedPlayers_NoFullCheck(currentPlayers, sock, storedId) ==
    LET currentPlayer == Find(currentPlayers, LAMBDA p : p.storedId = storedId)
    IN IF Len(currentPlayers) = 1 /\ currentPlayers[1].storedId = storedId
       THEN <<RoomPlayer(storedId, sock, "one")>>
       ELSE IF Truthy(currentPlayer)
       THEN [i \in 1..Len(currentPlayers) |->
                IF currentPlayers[i].storedId = storedId
                THEN RoomPlayer(storedId, sock, currentPlayer.player)
                ELSE currentPlayers[i]]
       ELSE Append(currentPlayers, RoomPlayer(storedId, sock, "two"))

\* join_room giving a returning player the seat of its position in join order
\* of connections: the returning player is seated again, after the other one
JoinedPlayers_SeatByOrder(currentPlayers, sock, storedId) ==
    LET currentPlayer == Find(currentPlayers, LAMBDA p : p.storedId = storedId)
        others == SelectSeq(currentPlayers, LAMBDA p : p.storedId # storedId)
    IN IF Len(currentPlayers) = 1
       THEN IF currentPlayers[1].storedId = storedId
            THEN <<RoomPlayer(storedId, sock, "one")>>
            ELSE Append(currentPlayers, RoomPlayer(storedId, sock, "two"))
       ELSE IF Truthy(currentPlayer)
            THEN [i \in 1..Len(currentPlayers) |->
                    IF currentPlayers[i].storedId = storedId
                    THEN RoomPlayer(storedId, sock, IF others = <<>> THEN "one" ELSE "two")
                    ELSE currentPlayers[i]]
            ELSE currentPlayers

\* the players array of an existing room after join_room by storedId on
\* connection sock: the array itself when the join is rejected
JoinedPlayers(currentPlayers, sock, storedId) ==
    LET currentPlayer == Find(currentPlayers, LAMBDA p : p.storedId = storedId)
    IN IF Len(currentPlayers) = 1
       THEN IF currentPlayers[1].storedId = storedId
            THEN <<RoomPlayer(storedId, sock, "one")>>
            ELSE Append(currentPlayers, RoomPlayer(storedId, sock, "two"))
       ELSE IF Truthy(currentPlayer)
            THEN [i \in 1..Len(currentPlayers) |->
                    IF currentPlayers[i].storedId = storedId
                    THEN RoomPlayer(storedId, sock, currentPlayer.player)
                    ELSE currentPlayers[i]]
            ELSE currentPlayers

\* join_room announcing the refusal on the room's topic instead of to the caller
JoinedEmits_ErrorToRoom(currentRoom, sock, storedId, subscribed) ==
    LET currentPlayers == currentRoom.players
        room_id == currentRoom.room_id
        opponent == Find(currentPlayers, LAMBDA p : p.storedId # storedId)
        currentPlayer == Find(currentPlayers, LAMBDA p : p.storedId = storedId)
    IN IF Len(currentPlayers) = 1
       THEN IF currentPlayers[1].storedId = storedId
            THEN <<ToSocket(sock, "dispatch", currentRoom.playerOneState)>>
            ELSE << ToSocket(sock, "dispatch", ReverseState(currentRoom.playerOneState)),
                    Broadcast(sock, room_id, "confirmOnlineState", subscribed),
                    ToSocket(opponent.socketId, "opponentOnlineStateChanged", TRUE),
                    ToSocket(sock, "chat_history", currentRoom.messages) >>
       ELSE IF Truthy(currentPlayer)
            THEN << ToSocket(sock, "dispatch",
                             IF currentPlayer.player = "one"
                             THEN currentRoom.playerOneState
                             ELSE ReverseState(currentRoom.playerOneState)),
                    ToSocket(opponent.socketId, "opponentOnlineStateChanged", TRUE),
                    Broadcast(sock, room_id, "confirmOnlineState", subscribed),
                    ToSocket(sock, "chat_history", currentRoom.messages) >>
            ELSE <<[ev |-> "error", room |-> room_id,
                    rcpt |-> {k \in Sockets : <<k, room_id>> \in subscribed},
                    payload |-> RoomFull]>>

\* what join_room emits for an existing room
JoinedEmits(currentRoom, sock, storedId, subscribed) ==
    LET currentPlayers == currentRoom.players
        room_id == currentRoom.room_id
        opponent == Find(currentPlayers, LAMBDA p : p.storedId # storedId)
        currentPlayer == Find(currentPlayers, LAMBDA p : p.storedId = storedId)
    IN IF Len(currentPlayers) = 1
       THEN IF currentPlayers[1].storedId = storedId
            THEN <<ToSocket(sock, "dispatch", currentRoom.playerOneState)>>
            ELSE << ToSocket(sock, "dispatch", ReverseState(currentRoom.playerOneState)),
                    Broadcast(sock, room_id, "confirmOnlineState", subscribed),
                    ToSocket(opponent.socketId, "opponentOnlineStateChanged", TRUE),
                    ToSocket(sock, "chat_history", currentRoom.messages) >>
       ELSE IF Truthy(currentPlayer)
            THEN << ToSocket(sock, "dispatch",
                             IF currentPlayer.player = "one"
                             THEN currentRoom.playerOneState
                             ELSE ReverseState(currentRoom.playerOneState)),
                    ToSocket(opponent.socketId, "opponentOnlineStateChanged", TRUE),
                    Broadcast(sock, room_id, "confirmOnlineState", subscribed),
                    ToSocket(sock, "chat_history", currentRoom.messages) >>
            ELSE <<ToSocket(sock, "error", RoomFull)>>

\* join_room calling socket.join(room_id) before the length test
JoinRoom_SubscribesFirst(obs, sock, room_id, storedId, isTournament, matchId, tournamentId) ==
    /\ UNCHANGED <<tournaments, tTimers, rTimers, users, inserting>>
    /\ subs' = subs \cup {<<sock, room_id>>}
    /\ IF Len(room_id) # 4
       THEN /\ Emit(obs, <<ToSocket(sock, "error", InvalidLink)>>)
            /\ UNCHANGED rooms
       ELSE IF RoomIndex(rooms, room_id) # 0
       THEN LET currentRoom == rooms[RoomIndex(rooms, room_id)]
            IN /\ rooms' = WithPlayers(rooms, room_id,
                             JoinedPlayers(currentRoom.players, sock, storedId))
               /\ Emit(obs, JoinedEmits(currentRoom, sock, storedId, subs'))
       ELSE LET room == NewRoom(room_id, storedId, sock, isTournament,
                                tournamentId, matchId)
            IN /\ rooms' = Append(rooms, room)
               /\ Emit(obs, <<ToSocket(sock, "dispatch", room.playerOneState)>>)

\* socket.on("join_room") from connection sock
JoinRoom(obs, sock, room_id, storedId, isTournament, matchId, tournamentId) ==
    /\ UNCHANGED <<tournaments, tTimers, rTimers, users, inserting>>
    /\ IF Len(room_id) # 4
       THEN /\ Emit(obs, <<ToSocket(sock, "error", InvalidLink)>>)
            /\ UNCHANGED <<rooms, subs>>
       ELSE
       /\ subs' = subs \cup {<<sock, room_id>>}
       /\ IF RoomIndex(rooms, room_id) # 0
          THEN LET currentRoom == rooms[RoomIndex(rooms, room_id)]
               IN /\ rooms' = WithPlayers(rooms, room_id,
                                JoinedPlayers(currentRoom.players, sock, storedId))
                  /\ Emit(obs, JoinedEmits(currentRoom, sock, storedId, subs'))
          ELSE LET room == NewRoom(room_id, storedId, sock, isTournament,
                                   tournamentId, matchId)
               IN /\ rooms' = Append(rooms, room)
                  /\ Emit(obs, <<ToSocket(sock, "dispatch", room.playerOneState)>>)

(***************************************************************************)
(* Result arbitration                                                      *)
(***************************************************************************)
\* the trace of a call of tournamentManager.reportMatchResult, with the
\* connection whose event made the call and the session that event named
CallReport(sock, room_id, tid, mid, winnerStoredId) ==
    [ev |-> "reportMatchResult", from |-> sock, room |-> room_id,
     tournamentId |-> tid, matchId |-> mid, winnerStoredId |-> winnerStoredId]

\* the handlers ending without their setTimeout
Scheduled_NoTimer(room_id) == rTimers

\* setTimeout(() => rooms = rooms.filter(...), 1000): one more pending timer;
\* a timer for a room_id no room can have never removes anything and is not
\* kept
Scheduled(room_id) ==
    IF room_id \in RoomIds THEN [rTimers EXCEPT ![room_id] = @ + 1] ELSE rTimers

\* the winner's update, the loser's update if the room has another participant,
\* and the match_over broadcast
XpAndMatchOver(room, room_id, winnerStoredId) ==
    LET loser == Find(room.players, LAMBDA p : p.storedId # winnerStoredId)
    IN <<UpdateUserXP(winnerStoredId, 10, TRUE)>>
       \o (IF Truthy(loser) THEN <<UpdateUserXP(loser.storedId, 0, FALSE)>> ELSE <<>>)
       \o <<ToRoom(room_id, "match_over", winnerStoredId)>>

\* socket.on("game_over") from connection sock; isObject: the payload is an
\* object {room_id, winner}, not the bare room id
GameOver(obs, sock, room_id, isObject, winnerClaim) ==
    LET ri == RoomIndex(rooms, room_id)
        room == rooms[ri]
        reporter == Find(room.players, LAMBDA p : p.socketId = sock)
        other == Find(room.players, LAMBDA p : p.storedId # reporter.storedId)
        winnerStoredId ==
            IF winnerClaim = "user" THEN reporter.storedId
            ELSE IF winnerClaim = "opponent" /\ Truthy(other) THEN other.storedId
            ELSE Missing
        arbitrated ==
            /\ ri # 0
            /\ room.isTournament /\ room.tournamentId # Missing
            /\ room.matchId # NoMatchId /\ isObject
            /\ Truthy(reporter)
            /\ winnerStoredId # Missing
    IN /\ rTimers' = Scheduled(room_id)
       /\ UNCHANGED <<rooms, subs, users, inserting>>
       /\ IF arbitrated
          THEN \E rc \in Draws(MapDraws(tournaments, room.tournamentId,
                    LAMBDA d : ReportMatchResult(tournaments, room.tournamentId,
                                                 room.matchId, winnerStoredId, d).ts)) :
                LET r == ReportMatchResult(tournaments, room.tournamentId,
                                           room.matchId, winnerStoredId, rc)
                IN /\ tournaments' = r.ts
                   /\ tTimers' = IF r.timer
                                 THEN [tTimers EXCEPT ![room.tournamentId] = @ + 1]
                                 ELSE tTimers
                   /\ Emit(obs, <<CallReport(sock, room_id, room.tournamentId, room.matchId, winnerStoredId)>>
                             \o r.out \o XpAndMatchOver(room, room_id, winnerStoredId))
          ELSE /\ Emit(obs, <<>>)
               /\ UNCHANGED <<tournaments, tTimers>>

\* socket.on("tournament_match_win") from connection sock
TournamentMatchWin(obs, sock, room_id, tournamentId, matchId, winnerStoredId, winnerType) ==
    LET ri == RoomIndex(rooms, room_id)
        room == rooms[ri]
        fallback == (tournamentId = Missing \/ matchId = NoMatchId)
                    /\ ri # 0 /\ room.isTournament
        tid == IF fallback THEN room.tournamentId ELSE tournamentId
        mid == IF fallback THEN room.matchId ELSE matchId
        reporter == Find(room.players, LAMBDA p : p.socketId = sock)
        other == Find(room.players, LAMBDA p : p.storedId # reporter.storedId)
        finalWinnerId ==
            IF ri # 0 /\ Truthy(reporter) /\ winnerType # Missing
            THEN IF winnerType = "user" THEN reporter.storedId
                 ELSE IF Truthy(other) THEN other.storedId ELSE winnerStoredId
            ELSE winnerStoredId
    IN /\ UNCHANGED <<rooms, subs, users, inserting>>
       /\ IF tid # Missing /\ mid # NoMatchId /\ finalWinnerId # Missing
          THEN \E rc \in Draws(MapDraws(tournaments, tid,
                    LAMBDA d : ReportMatchResult(tournaments, tid, mid,
                                                 finalWinnerId, d).ts)) :
                LET r == ReportMatchResult(tournaments, tid, mid, finalWinnerId, rc)
                IN /\ tournaments' = r.ts
                   /\ tTimers' = IF r.timer THEN [tTimers EXCEPT ![tid] = @ + 1]
                                 ELSE tTimers
                   /\ IF ri = 0
                      THEN \* room.players throws: the catch ends the handler
                           /\ Emit(obs, <<CallReport(sock, room_id, tid, mid, finalWinnerId)>> \o r.out
                                     \o <<UpdateUserXP(finalWinnerId, 10, TRUE)>>)
                           /\ UNCHANGED rTimers
                      ELSE /\ Emit(obs, <<CallReport(sock, room_id, tid, mid, finalWinnerId)>> \o r.out
                                     \o XpAndMatchOver(room, room_id, finalWinnerId))
                           /\ rTimers' = Scheduled(room_id)
          ELSE /\ Emit(obs, <<>>)
               /\ rTimers' = Scheduled(room_id)
               /\ UNCHANGED <<tournaments, tTimers>>

\* a timer callback that filters nothing out
RoomCleanup_KeepsRoom(obs, room_id) ==
    /\ rTimers[room_id] > 0
    /\ rTimers' = [rTimers EXCEPT ![room_id] = @ - 1]
    /\ Emit(obs, <<>>)
    /\ UNCHANGED <<tournaments, tTimers, rooms, subs, users, inserting>>

\* rooms.filter((room) => room.room_id != room_id)
Filtered(rs, room_id) == SelectSeq(rs, LAMBDA r : r.room_id # room_id)

\* the callback of the setTimeout of game_over and tournament_match_win
RoomCleanup(obs, room_id) ==
    /\ rTimers[room_id] > 0
    /\ rTimers' = [rTimers EXCEPT ![room_id] = @ - 1]
    /\ rooms' = Filtered(rooms, room_id)
    /\ Emit(obs, <<>>)
    /\ UNCHANGED <<tournaments, tTimers, subs, users, inserting>>

\* a disconnect handler that looks at the first room of the connection only
Disconnect_FirstRoomOnly(obs, sock) ==
    LET mine == {i \in 1..Len(rooms) :
                    \E n \in 1..Len(rooms[i].players) : rooms[i].players[n].socketId = sock}
        first == CHOOSE i \in mine : \A j \in mine : i <= j
        opponent == Find(rooms[first].players, LAMBDA p : p.socketId # sock)
    IN /\ Emit(obs, IF mine # {} /\ Truthy(opponent)
                    THEN <<ToSocket(opponent.socketId, "opponentOnlineStateChanged", FALSE)>>
                    ELSE <<>>)
       /\ subs' = {p \in subs : p[1] # sock}
       /\ UNCHANGED <<tournaments, tTimers, rooms, rTimers, users, inserting>>

\* a disconnect handler that goes by the topics the connection is subscribed
\* to instead of the socketId of the players
Disconnect_BySubscription(obs, sock) ==
    LET notice(room) ==
            LET opponent == Find(room.players, LAMBDA p : p.socketId # sock)
            IN IF <<sock, room.room_id>> \in subs /\ Truthy(opponent)
               THEN <<ToSocket(opponent.socketId, "opponentOnlineStateChanged", FALSE)>>
               ELSE <<>>
    IN /\ Emit(obs, Flatten([i \in 1..Len(rooms) |-> notice(rooms[i])]))
       /\ subs' = {p \in subs : p[1] # sock}
       /\ UNCHANGED <<tournaments, tTimers, rooms, rTimers, users, inserting>>

\* socket.on("disconnect") of connection sock, which leaves every topic
Disconnect(obs, sock) ==
    LET notice(room) ==
            LET player == Find(room.players, LAMBDA p : p.socketId = sock)
                opponent == Find(room.players, LAMBDA p : p.socketId # sock)
            IN IF Truthy(player) /\ Truthy(opponent)
               THEN <<ToSocket(opponent.socketId, "opponentOnlineStateChanged", FALSE)>>
               ELSE <<>>
    IN /\ Emit(obs, Flatten([i \in 1..Len(rooms) |-> notice(rooms[i])]))
       /\ subs' = {p \in subs : p[1] # sock}
       /\ UNCHANGED <<tournaments, tTimers, rooms, rTimers, users, inserting>>

\* socket.to(room_id).emit(ev, payload) with io.to in its place: the sender,
\* a subscriber of the topic, gets the event too
SocketTo_Echo(sock, room_id, ev, payload) ==
    [ev |-> ev, room |-> room_id, rcpt |-> Subscribers(room_id), payload |-> payload]

\* socket.to(room_id).emit(ev, payload): the topic's subscribers but the sender
SocketTo(sock, room_id, ev, payload) ==
    [ev |-> ev, room |-> room_id, rcpt |-> Subscribers(room_id) \ {sock},
     payload |-> payload]

\* what sendUpdatedState assigns to currentRoom.playerOneState
StoredState(updatedState) ==
    IF updatedState.player = "one" THEN updatedState ELSE ReverseState(updatedState)

\* the payload of the dispatch of sendUpdatedState
UpdateState(playerOneState) ==
    [type |-> "UPDATE_STATE",
     playerOneState |-> playerOneState,
     playerTwoState |-> ReverseState(playerOneState)]

\* socket.on("sendUpdatedState") from connection sock; reading .player of a
\* null updatedState throws, and the catch ends the handler
SendUpdatedState(obs, sock, updatedState, room_id) ==
    /\ UNCHANGED <<tournaments, tTimers, rTimers, subs, users, inserting>>
    /\ IF RoomIndex(rooms, room_id) = 0 \/ updatedState = Null
       THEN /\ UNCHANGED rooms
            /\ Emit(obs, <<>>)
       ELSE LET i == RoomIndex(rooms, room_id)
                playerOneState == StoredState(updatedState)
            IN /\ rooms' = [rooms EXCEPT ![i].playerOneState = playerOneState]
               /\ Emit(obs, <<SocketTo(sock, room_id, "dispatch",
                                       UpdateState(playerOneState))>>)

\* the length past which send_message drops the oldest message
MaxMessages == 50

\* the msgData of send_message; its id and timestamp are clock readings no
\* handler reads and are left out
MsgData(senderId, message) == [senderId |-> senderId, text |-> message, status |-> "sent"]

\* send_message that never shifts the oldest message out
Pushed_NoShift(messages, msgData) == Append(messages, msgData)

\* currentRoom.messages after the push and the shift of send_message
Pushed(messages, msgData) ==
    IF Len(Append(messages, msgData)) > MaxMessages
    THEN Tail(Append(messages, msgData))
    ELSE Append(messages, msgData)

\* socket.on("send_message") from connection sock
SendMessage(obs, sock, room_id, message, senderId) ==
    /\ UNCHANGED <<tournaments, tTimers, rTimers, subs, users, inserting>>
    /\ IF RoomIndex(rooms, room_id) = 0
       THEN /\ UNCHANGED rooms
            /\ Emit(obs, <<>>)
       ELSE LET i == RoomIndex(rooms, room_id)
                msgData == MsgData(senderId, message)
            IN /\ rooms' = [rooms EXCEPT ![i].messages = Pushed(@, msgData)]
               /\ Emit(obs, <<ToRoom(room_id, "receive_message", msgData)>>)

\* mark_read that marks the reader's own messages too
Marked_OwnToo(messages, user_id) ==
    [n \in 1..Len(messages) |-> [messages[n] EXCEPT !.status = "read"]]

\* currentRoom.messages after the forEach of mark_read
Marked(messages, user_id) ==
    [n \in 1..Len(messages) |->
        IF messages[n].senderId # user_id /\ messages[n].status # "read"
        THEN [messages[n] EXCEPT !.status = "read"]
        ELSE messages[n]]

\* hasUpdates of mark_read
HasUpdates(messages, user_id) ==
    \E n \in 1..Len(messages) :
        messages[n].senderId # user_id /\ messages[n].status # "read"

\* socket.on("mark_read") from connection sock
MarkRead(obs, sock, room_id, user_id) ==
    /\ UNCHANGED <<tournaments, tTimers, rTimers, subs, users, inserting>>
    /\ IF RoomIndex(rooms, room_id) = 0
       THEN /\ UNCHANGED rooms
            /\ Emit(obs, <<>>)
       ELSE LET i == RoomIndex(rooms, room_id)
            IN /\ rooms' = [rooms EXCEPT ![i].messages = Marked(@, user_id)]
               /\ Emit(obs, IF HasUpdates(rooms[i].messages, user_id)
                            THEN <<ToRoom(room_id, "messages_read", user_id)>>
                            ELSE <<>>)

\* socket.on("confirmOnlineState") from connection sock: the answer of a
\* client to the confirmOnlineState it was sent
ConfirmOnlineState(obs, sock, storedId, room_id) ==
    /\ UNCHANGED <<tournaments, tTimers, rooms, rTimers, subs, users, inserting>>
    /\ IF RoomIndex(rooms, room_id) = 0
       THEN Emit(obs, <<>>)
       ELSE LET opponent == Find(rooms[RoomIndex(rooms, room_id)].players,
                                 LAMBDA p : p.storedId # storedId)
            IN Emit(obs, IF Truthy(opponent)
                         THEN <<ToSocket(opponent.socketId, "opponentOnlineStateChanged", TRUE)>>
                         ELSE <<>>)

\* last_match_status TEXT DEFAULT NULL
SqlNull == "NULL"

\* the row INSERT INTO users (address) makes, by the column defaults
NewUser(address) ==
    [address |-> address, xp |-> 0, games_played |-> 0, wins |-> 0,
     last_match_status |-> SqlNull]

\* the table after the UPDATE of updateUserXP with every row's wins raised
UpdatedXP_AlwaysWin(table, address, xpToAdd, isWin) ==
    [a \in DOMAIN table |->
        IF a = address
        THEN [table[a] EXCEPT !.xp = @ + xpToAdd,
                              !.games_played = @ + 1,
                              !.wins = @ + 1,
                              !.last_match_status = IF isWin THEN "WON" ELSE "LOST"]
        ELSE table[a]]

\* the table after the UPDATE of updateUserXP: the rows WHERE address = $4
UpdatedXP(table, address, xpToAdd, isWin) ==
    LET winIncrement == IF isWin THEN 1 ELSE 0
        status == IF isWin THEN "WON" ELSE "LOST"
    IN [a \in DOMAIN table |->
            IF a = address
            THEN [table[a] EXCEPT !.xp = @ + xpToAdd,
                                  !.games_played = @ + 1,
                                  !.wins = @ + winIncrement,
                                  !.last_match_status = status]
            ELSE table[a]]

\* how many calls of createUserIfNotExists(address) have their INSERT ahead
Pending(address) == IF address \in DOMAIN inserting THEN inserting[address] ELSE 0

\* createUserIfNotExists(address) up to the answer of its getUser: the call
\* returns the row it found, or goes on to the INSERT when it found none
CreateUserIfNotExists(address) ==
    /\ inserting' = IF address \notin DOMAIN users
                    THEN MapSet(inserting, address, Pending(address) + 1)
                    ELSE inserting
    /\ UNCHANGED <<tournaments, tTimers, rooms, rTimers, subs, out, users>>

\* the INSERT of a call of createUserIfNotExists that found no row: when the
\* row has been made in the meantime the INSERT fails on the primary key and
\* the call rejects, the table as it was
CreateUserInsert(address) ==
    /\ Pending(address) > 0
    /\ inserting' = IF Pending(address) = 1
                    THEN MapDelete(inserting, address)
                    ELSE MapSet(inserting, address, Pending(address) - 1)
    /\ users' = IF address \notin DOMAIN users
                THEN MapSet(users, address, NewUser(address))
                ELSE users
    /\ UNCHANGED <<tournaments, tTimers, rooms, rTimers, subs, out>>

\* updateUserXP(address, xpToAdd, isWin) running against the table
RunUpdateUserXP(address, xpToAdd, isWin) ==
    /\ users' = UpdatedXP(users, address, xpToAdd, isWin)
    /\ UNCHANGED <<tournaments, tTimers, rooms, rTimers, subs, out, inserting>>

\* updateUserMatchStatus(address, status): UPDATE users SET last_match_status
UpdateUserMatchStatus(address, status) ==
    /\ users' = [a \in DOMAIN users |->
                    IF a = address THEN [users[a] EXCEPT !.last_match_status = status]
                    ELSE users[a]]
    /\ UNCHANGED <<tournaments, tTimers, rooms, rTimers, subs, out, inserting>>

(***************************************************************************)
(* Specifications                                                          *)
(***************************************************************************)
\* new Map()
EmptyMap == [x \in {} |-> Null]

\* the scenarios follow the handlers while no more than MaxRoomTimers timers
\* per room and MaxTournamentTimers per tournament are pending; the handlers
\* themselves schedule without limit
TimersBounded ==
    /\ \A c \in RoomIds : rTimers[c] <= MaxRoomTimers
    /\ \A t \in TIds : tTimers[t] <= MaxTournamentTimers

\* every match with two players has a room code of four characters: the
\* state of the tournaments while every draw of notifyMatchReady has yielded
\* four characters. The scenarios of the bracket and of the sessions follow
\* the handlers while this holds; SpecK follows them through every draw
FullCodes ==
    \A tid \in DOMAIN tournaments :
        \A i \in 1..Len(tournaments[tid].matches) :
            LET m == tournaments[tid].matches[i]
            IN Truthy(m.p1) /\ Truthy(m.p2) => m.roomCode \in RoomIds

Init ==
    /\ tournaments = EmptyMap
    /\ tTimers = [t \in TIds |-> 0]
    /\ rooms = <<>>
    /\ rTimers = [c \in RoomIds |-> 0]
    /\ subs = {}
    /\ out = <<>>
    /\ users = EmptyMap
    /\ inserting = EmptyMap


\* match ids a client may name
MatchIds == {MatchId(t, r, m) : t \in LongIds, r \in 1..2, m \in 0..1}

\* the bracket engine alone: no session is ever joined, and the match
\* assignments sent to the clients are observed
ObsT == {"tournament_match_ready"}
\* the clients of a tournament and the connection each joins from; A also
\* comes back on a second connection, s2, from which match assignments are
\* asked again
Entrants == {<<"s1", "A">>, <<"s1", "B">>, <<"s1", "C">>, <<"s1", "DELTA">>, <<"s2", "A">>}
Returning == {<<"s1", "A">>, <<"s2", "A">>, <<"s1", "DELTA">>}
\* the order in which new players arrive
Arrival == <<"A", "B", "C", "DELTA">>
Arrived(tid) ==
    IF tid \in DOMAIN tournaments
    THEN {tournaments[tid].players[i].storedId : i \in 1..Len(tournaments[tid].players)}
    ELSE {}
\* sid is in the tournament or is the next player to arrive
MayArrive(tid, sid) ==
    \A i, j \in 1..Len(Arrival) :
        i < j /\ Arrival[j] = sid => Arrival[i] \in Arrived(tid)

NextT ==
    \/ \E id \in LongIds, size \in Sizes : CreateTournament(ObsT, id, size, "Cup")
    \/ \E tid \in LongIds, c \in Entrants :
            /\ MayArrive(tid, c[2])
            /\ JoinTournamentEv(ObsT, c[1], tid, c[2], Missing)
            /\ FullCodes'
    \/ \E tid \in LongIds, c \in Returning :
            ReconnectTournamentEv(ObsT, c[1], tid, c[2])
    \/ \E tid \in LongIds, mid \in MatchIds :
            /\ RequestMatchInfoEv(ObsT, "s2", tid, mid)
            /\ FullCodes'
    \/ \E mid \in MatchIds, w \in StoredIds \cup {Outsider} :
            /\ TournamentMatchWin(ObsT, "s1", Missing, mid.t, mid, w, Missing)
            /\ TimersBounded'
            /\ FullCodes'
    \/ \E tid \in LongIds : TournamentCleanup(ObsT, tid)

SpecT == Init /\ [][NextT]_vars


\* the session registry alone: no tournament is ever created. Room AAAA takes
\* every client on every connection and is played to its end; room BBBB, a
\* second session beside it, is opened by A and stays open
SSockets == {"s1", "s2", "s3"}
SStoredIds == {"A", "B", "C"}
SJoins ==
    {<<k, c, sid>> : k \in SSockets, c \in {"AAAA", "BAD", Missing}, sid \in SStoredIds}
    \cup {<<"s1", "BBBB", "A">>}

ObsS == {"error", "opponentOnlineStateChanged", "confirmOnlineState"}

NextS ==
    \/ \E j \in SJoins : JoinRoom(ObsS, j[1], j[2], j[3], FALSE, NoMatchId, Missing)
    \/ \E k \in SSockets, c \in {"AAAA", "BAD"} :
            /\ GameOver(ObsS, k, c, FALSE, Missing)
            /\ TimersBounded'
    \/ \E c \in RoomIds : RoomCleanup(ObsS, c)
    \/ \E k \in SSockets : Disconnect(ObsS, k)

SpecS == Init /\ [][NextS]_vars


\* sessions, bracket and arbitration together: one tournament of two players,
\* A on connection s1 and B on s2, and a third connection s3 from which A
\* rejoins and C, who is in no tournament, plays
Obs == {"reportMatchResult", "updateUserXP", "match_over"}
Clients == {<<"s1", "A">>, <<"s2", "B">>, <<"s3", "A">>, <<"s3", "C">>}
TheMatch == MatchId("T1", 1, 0)
Links == {<<FALSE, NoMatchId, Missing>>, <<TRUE, TheMatch, "T1">>}
\* a room id no client ever joins
NoSuchRoom == "ZZZZ"
\* the winner a tournament_match_win payload names, absolutely (winnerStoredId)
\* and relatively (winnerType)
WinClaims == {<<"B", Missing>>, <<Outsider, Missing>>, <<"B", "user">>,
              <<Missing, "user">>, <<Missing, "opponent">>, <<Missing, Missing>>}
\* tournament_match_win payloads: naming session AAAA from every connection,
\* and naming a session that does not exist from s3
WinReports ==
    {<<k, "AAAA", l[3], l[2], w[1], w[2]>> : k \in Sockets, l \in Links, w \in WinClaims}
    \cup {<<"s3", NoSuchRoom, l[3], l[2], w[1], w[2]>> : l \in Links, w \in WinClaims}

Next ==
    \/ CreateTournament(Obs, "T1", 2, "Cup")
    \/ \E c \in {<<"s1", "A">>, <<"s2", "B">>} :
            /\ JoinTournamentEv(Obs, c[1], "T1", c[2], Missing)
            /\ FullCodes'
    \/ \E tid \in LongIds : TournamentCleanup(Obs, tid)
    \/ \E c \in Clients, l \in Links : JoinRoom(Obs, c[1], "AAAA", c[2], l[1], l[2], l[3])
    \/ \E k \in Sockets, c \in {"AAAA", NoSuchRoom}, claim \in {"user", "opponent"} :
            /\ GameOver(Obs, k, c, TRUE, claim)
            /\ TimersBounded'
            /\ FullCodes'
    \/ \E i \in WinReports :
            /\ TournamentMatchWin(Obs, i[1], i[2], i[3], i[4], i[5], i[6])
            /\ TimersBounded'
            /\ FullCodes'
    \/ \E c \in RoomIds : RoomCleanup(Obs, c)

Spec == Init /\ [][Next]_vars


\* joins and reconnections alone: a tournament joined by A on s1 and by B and
\* C on s2, a room joined by the same clients, and s3, the connection any of
\* them comes back on
ObsJ == {"error"}
JClients == {<<"s1", "A">>, <<"s2", "B">>, <<"s2", "C">>}

NextJ ==
    \/ \E id \in LongIds, size \in Sizes : CreateTournament(ObsJ, id, size, "Cup")
    \/ \E tid \in LongIds, c \in JClients :
            /\ JoinTournamentEv(ObsJ, c[1], tid, c[2], Missing)
            /\ FullCodes'
    \/ \E tid \in LongIds, c \in JClients : ReconnectTournamentEv(ObsJ, "s3", tid, c[2])
    \/ \E c \in JClients : \E k \in {c[1], "s3"} :
            JoinRoom(ObsJ, k, "AAAA", c[2], FALSE, NoMatchId, Missing)
    \/ \E k \in Sockets : Disconnect(ObsJ, k)

SpecJ == Init /\ [][NextJ]_vars

\* the end of a session: a tournament of two, room AAAA joined by A on s1 and
\* B on s2 with and without a tournament link, and both events that end a
\* game, from a player and from a connection that is no player. The timers
\* of setTimeout fire: the 1000 ms pass.
ObsO == {"match_over"}
OClients == {<<"s1", "A">>, <<"s2", "B">>}
\* game_over payloads: the bare room id, and an object with a winner
GameOvers == {<<FALSE, Missing>>, <<TRUE, "user">>}
\* tournament_match_win payloads: no winner at all, and a winnerType
OWinClaims == {<<Missing, Missing>>, <<Missing, "user">>}

NextO ==
    \/ CreateTournament(ObsO, "T1", 2, "Cup")
    \/ \E c \in OClients :
            /\ JoinTournamentEv(ObsO, c[1], "T1", c[2], Missing)
            /\ FullCodes'
    \/ \E c \in OClients, l \in Links :
            JoinRoom(ObsO, c[1], "AAAA", c[2], l[1], l[2], l[3])
    \/ \E k \in {"s1", "s3"}, g \in GameOvers :
            /\ GameOver(ObsO, k, "AAAA", g[1], g[2])
            /\ TimersBounded'
            /\ FullCodes'
    \/ \E k \in {"s2", "s3"}, l \in Links, w \in OWinClaims :
            /\ TournamentMatchWin(ObsO, k, "AAAA", l[3], l[2], w[1], w[2])
            /\ TimersBounded'
            /\ FullCodes'
    \/ \E c \in RoomIds : RoomCleanup(ObsO, c)

SpecO ==
    /\ Init
    /\ [][NextO]_vars
    /\ \A c \in RoomIds : WF_vars(RoomCleanup(ObsO, c))

\* connections coming and going: rooms AAAA and BBBB, both joined by A on s1
\* and by B on s2, and s3, the connection either comes back on; a client may
\* answer confirmOnlineState; every event of the handlers is observed
ObsD == {"dispatch", "error", "chat_history", "confirmOnlineState",
         "opponentOnlineStateChanged"}
DClients == {<<"s1", "A">>, <<"s2", "B">>, <<"s3", "A">>, <<"s3", "B">>}

NextD ==
    \/ \E c \in DClients, room_id \in RoomIds :
            JoinRoom(ObsD, c[1], room_id, c[2], FALSE, NoMatchId, Missing)
    \/ \E k \in Sockets : Disconnect(ObsD, k)
    \/ \E c \in DClients, room_id \in RoomIds : ConfirmOnlineState(ObsD, c[1], c[2], room_id)

SpecD == Init /\ [][NextD]_vars

\* the messages of room AAAA, or none when the room is not there
Log(rs) == IF RoomIndex(rs, "AAAA") = 0 THEN <<>> ELSE rs[RoomIndex(rs, "AAAA")].messages
\* the clients number their messages: the text of the next one
NextText == IF Log(rooms) = <<>> THEN 1 ELSE Log(rooms)[Len(Log(rooms))].text + 1

\* a long chat: room AAAA, joined by A on s1 and B on s2, gets messages
\* number 1 to MaxTexts, past the MaxMessages the room keeps; A writes, and
\* B puts in a word when no message of B is in the room
MaxTexts == 53
ObsM == {"receive_message"}
MClients == {<<"s1", "A">>, <<"s2", "B">>}
MayWrite(sid) == sid = "B" => \A n \in 1..Len(Log(rooms)) : Log(rooms)[n].senderId # "B"

NextM ==
    \/ \E c \in MClients : JoinRoom(ObsM, c[1], "AAAA", c[2], FALSE, NoMatchId, Missing)
    \/ \E c \in MClients, room_id \in {"AAAA", NoSuchRoom} :
            /\ NextText <= MaxTexts
            /\ MayWrite(c[2])
            /\ SendMessage(ObsM, c[1], room_id, NextText, c[2])

SpecM == Init /\ [][NextM]_vars


\* reading: a short chat of at most MaxChat messages in room AAAA, written
\* by A and B in any order, and marked as read by A, by B and by X, who
\* wrote none, in the room and in a room that is not there
MaxChat == 3
ObsR == {"messages_read"}
Readers == {"A", "B", Outsider}

NextR ==
    \/ \E c \in MClients : JoinRoom(ObsR, c[1], "AAAA", c[2], FALSE, NoMatchId, Missing)
    \/ \E c \in MClients :
            /\ NextText <= MaxChat
            /\ SendMessage(ObsR, c[1], "AAAA", NextText, c[2])
    \/ \E k \in Sockets, room_id \in {"AAAA", NoSuchRoom}, user_id \in Readers :
            MarkRead(ObsR, k, room_id, user_id)

SpecR == Init /\ [][NextR]_vars

\* state updates: room AAAA joined by A, B and C, each on a connection of its
\* own, and B coming back on s3; every connection submits states to the room
\* and to a room_id that names no room
ObsU == {"dispatch"}
UClients == {<<"s1", "A">>, <<"s2", "B">>, <<"s3", "C">>, <<"s3", "B">>}
Hands == {<<<<"c1">>, <<"c2">>>>, <<<<"c1", "c2">>, <<>>>>}
SubmittedStates ==
    {[userCards |-> h[1], opponentCards |-> h[2], whoIsToPlay |-> w, player |-> p] :
        h \in Hands, w \in {"user", "opponent"}, p \in {"one", "two"}}

NextU ==
    \/ \E c \in UClients : JoinRoom(ObsU, c[1], "AAAA", c[2], FALSE, NoMatchId, Missing)
    \/ \E k \in Sockets, st \in SubmittedStates \cup {Null}, c \in {"AAAA", NoSuchRoom} :
            SendUpdatedState(ObsU, k, st, c)
    \/ \E k \in Sockets : Disconnect(ObsU, k)

SpecU == Init /\ [][NextU]_vars


(***************************************************************************)
(* Properties                                                              *)
(***************************************************************************)
\* the winners a report may name
ReportedIds == StoredIds \cup {Outsider}

\* C1: once a match has a recorded winner, reportMatchResult for that match
\* is a no-op whatever winner it names: the tournament map (every match's
\* winner, the round, the matches, the status, the tournament's winner) is
\* unchanged, no cleanup timer is scheduled and nothing is emitted.
C1_ReportIsIdempotent ==
    \A tid \in DOMAIN tournaments :
        \A i \in 1..Len(tournaments[tid].matches) :
            Truthy(tournaments[tid].matches[i].winner) =>
                \A w \in ReportedIds, rc \in CodeDraws :
                    ReportMatchResult(tournaments, tid, tournaments[tid].matches[i].id, w, rc)
                        = [ts |-> tournaments, timer |-> FALSE, out |-> <<>>]

\* a match of the current round has its winner while the round is still open
C1_Witness ==
    \E tid \in DOMAIN tournaments :
        LET t == tournaments[tid]
        IN /\ t.status = "active"
           /\ \E i \in 1..Len(t.matches) :
                t.matches[i].round = t.round /\ Truthy(t.matches[i].winner)

IsPow2(n) == \E k \in 0..n : Pow2(k) = n

\* log2 of a power of two
Log2(n) == CHOOSE k \in 0..n : Pow2(k) = n

\* a started tournament of size 2^k is completed exactly when it is in round
\* k and the one match of round k has a winner; it is never past round k;
\* while it is active some match of its round has no winner
BracketClosesAtRound(t, k) ==
    LET cur == CurrentRoundMatches(t)
        resolved == \A i \in 1..Len(cur) : Truthy(cur[i].winner)
    IN /\ t.round <= k
       /\ t.status # "waiting" /\ t.round = k => Len(cur) = 1
       /\ t.status = "completed" <=> (t.status # "waiting" /\ t.round = k /\ resolved)
       /\ t.status = "active" => ~resolved

\* C2: a tournament of size 2^k is completed exactly when it is in round k
\* and the single match of round k has a winner, in whatever order results
\* are reported; it never completes in an earlier round and never passes
\* round k. Stated for k >= 1: a tournament of size 1 = 2^0 is in round 1
\* from its creation.
C2_CompletesAtRoundK ==
    \A tid \in DOMAIN tournaments :
        LET t == tournaments[tid]
        IN IsPow2(t.size) /\ t.size >= 2 => BracketClosesAtRound(t, Log2(t.size))


\* the room code of match mid in the tournament map ts
CodeOf(ts, tid, mid) ==
    IF tid \in DOMAIN ts /\ MatchIndex(ts[tid], mid) # 0
    THEN ts[tid].matches[MatchIndex(ts[tid], mid)].roomCode
    ELSE NoCode

\* the matches of the tournament map ts that have a room code
Coded(ts) ==
    UNION {{<<tid, i>> : i \in {j \in 1..Len(ts[tid].matches) :
                                    ts[tid].matches[j].roomCode # NoCode}} :
           tid \in DOMAIN ts}

\* C8: a match that has a room code keeps it through every step (start,
\* reconnect, request, report, advance); every tournament_match_ready payload
\* for a match carries the code the match has, which is the code it had before
\* the step if it had one; and a step that changes the tournament map is not
\* a request_match_info for a match that has a code.
C8_RoomCodeIsStable ==
    [][ /\ \A c \in Coded(tournaments) :
            c[1] \in DOMAIN tournaments' /\ c[2] <= Len(tournaments'[c[1]].matches)
                => tournaments'[c[1]].matches[c[2]].roomCode
                        = tournaments[c[1]].matches[c[2]].roomCode
        /\ \A k \in 1..Len(out') :
            out'[k].ev = "tournament_match_ready" =>
                /\ out'[k].roomId # NoCode
                /\ out'[k].roomId = CodeOf(tournaments', out'[k].tournamentId, out'[k].matchId)
                /\ CodeOf(tournaments, out'[k].tournamentId, out'[k].matchId)
                        \in {NoCode, out'[k].roomId}
        /\ \/ tournaments' = tournaments
           \/ \A sock \in Sockets, c \in Coded(tournaments) :
                ~RequestMatchInfoEv(ObsT, sock, c[1], tournaments[c[1]].matches[c[2]].id)
      ]_vars


\* C9: no two distinct matches have the same room code, and the room code of a
\* match is not the code of a room holding a player who is not of that match.
C9_CodesAreUnique ==
    /\ \A a, b \in Coded(tournaments) :
        a # b => tournaments[a[1]].matches[a[2]].roomCode
                    # tournaments[b[1]].matches[b[2]].roomCode
    /\ \A c \in Coded(tournaments) :
        LET m == tournaments[c[1]].matches[c[2]]
            ri == RoomIndex(rooms, m.roomCode)
        IN ri # 0 =>
            \A k \in 1..Len(rooms[ri].players) :
                rooms[ri].players[k].storedId \in {m.p1.storedId, m.p2.storedId}


\* C3: every room of the registry has at most two players.
C3_AtMostTwoPlayers ==
    \A i \in 1..Len(rooms) : Len(rooms[i].players) <= 2

\* a join has just been refused because the room has its two players
C3_Witness ==
    /\ out = <<ToSocket("s3", "error", RoomFull)>>
    /\ \E i \in 1..Len(rooms) :
        /\ Len(rooms[i].players) = 2
        /\ <<"s3", rooms[i].room_id>> \in subs
        /\ \A k \in 1..2 : rooms[i].players[k].socketId # "s3"

\* C10: the first player of a room has seat "one" and the second, another
\* storedId, seat "two"; through every step a room's players keep their
\* storedId and their seat and none leaves, at most one record changes, and a
\* join_room changes no record but that of the storedId it names.
C10_SeatsAreFixed ==
    [][ /\ \A i \in 1..Len(rooms') :
            LET q == rooms'[i].players
            IN /\ q[1].player = "one"
               /\ Len(q) > 1 => q[2].player = "two" /\ q[2].storedId # q[1].storedId
        /\ \A i \in 1..Len(rooms), j \in 1..Len(rooms') :
            rooms[i].room_id = rooms'[j].room_id =>
                LET p == rooms[i].players
                    q == rooms'[j].players
                IN /\ Len(q) >= Len(p)
                   /\ \A k \in 1..Len(p) :
                        q[k].storedId = p[k].storedId /\ q[k].player = p[k].player
                   /\ Cardinality({k \in 1..Len(p) : q[k] # p[k]}) <= 1
        /\ \/ rooms' = rooms
           \/ \A jn \in SJoins :
                JoinRoom(ObsS, jn[1], jn[2], jn[3], FALSE, NoMatchId, Missing) =>
                    \A i \in 1..Len(rooms) :
                        i <= Len(rooms') /\ rooms'[i].room_id = rooms[i].room_id =>
                            \A k \in 1..Len(rooms[i].players) :
                                rooms'[i].players[k] # rooms[i].players[k]
                                    => rooms[i].players[k].storedId = jn[3]
      ]_vars

\* the player of seat "two" has just come back to a room of two on connection
\* s3, and the player of seat "one" is on another connection
C10_Witness ==
    /\ Len(out) = 2
    /\ out[1].ev = "opponentOnlineStateChanged"
    /\ out[2].ev = "confirmOnlineState"
    /\ \E i \in 1..Len(rooms) :
        LET p == rooms[i].players
        IN /\ Len(p) = 2
           /\ p[2].socketId = "s3" /\ p[2].player = "two"
           /\ p[1].socketId # "s3" /\ p[1].player = "one"
           /\ out[1].to = p[1].socketId
           /\ out[2].room = rooms[i].room_id


\* no two records of a players array have the same storedId
NoDuplicates(players) ==
    \A i, j \in 1..Len(players) : i # j => players[i].storedId # players[j].storedId

\* C7: no room and no tournament has two player records with the same
\* storedId, and a join (or a reconnection) by a storedId that is already
\* there, on whatever connection, leaves the number of records as it is.
C7_NoDuplicateParticipants ==
    /\ \A i \in 1..Len(rooms) :
        LET ps == rooms[i].players
        IN /\ NoDuplicates(ps)
           /\ \A k \in 1..Len(ps), sock \in Sockets :
                Len(JoinedPlayers(ps, sock, ps[k].storedId)) = Len(ps)
    /\ \A tid \in DOMAIN tournaments :
        LET t == tournaments[tid]
        IN /\ NoDuplicates(t.players)
           /\ \A k \in 1..Len(t.players), sock \in Sockets :
                LET again == Player(t.players[k].storedId, sock, t.players[k].name)
                IN /\ Len(ReconnectTournament(t, again).t.players) = Len(t.players)
                   /\ \A rc \in CodeDraws :
                        Len(JoinTournament(t, again, rc).t.players) = Len(t.players)

\* a player of a tournament of several has reconnected on s3, and the player
\* of seat "one" of a room of two is on s3
C7_Witness ==
    /\ \E tid \in DOMAIN tournaments :
        LET ps == tournaments[tid].players
        IN Len(ps) >= 2 /\ \E k \in 1..Len(ps) : ps[k].socketId = "s3"
    /\ \E i \in 1..Len(rooms) :
        Len(rooms[i].players) = 2 /\ rooms[i].players[1].socketId = "s3"

\* connection sock is that of a player of the room room_id
IsParticipant(sock, room_id) ==
    /\ RoomIndex(rooms, room_id) # 0
    /\ \E i \in 1..Len(rooms[RoomIndex(rooms, room_id)].players) :
        rooms[RoomIndex(rooms, room_id)].players[i].socketId = sock

\* C4: every call of reportMatchResult names as winner a player of the room
\* the report named, and the report came from the connection of a player of
\* that room: the winner is the reporter or the reporter's opponent, never a
\* storedId taken from the payload.
C4_WinnerResolvedFromReporter ==
    \A k \in 1..Len(out) :
        out[k].ev = "reportMatchResult" =>
            /\ IsParticipant(out[k].from, out[k].room)
            /\ \E i \in 1..Len(rooms[RoomIndex(rooms, out[k].room)].players) :
                rooms[RoomIndex(rooms, out[k].room)].players[i].storedId
                    = out[k].winnerStoredId

\* the step records no result and notifies no one of a result
NothingReported ==
    /\ tournaments' = tournaments
    /\ \A k \in 1..Len(out') : out'[k].ev \notin {"match_over", "updateUserXP"}

\* C5: a game_over or a tournament_match_win from a connection that is not
\* that of a player of the room it names (a room that does not exist
\* included) records no winner, advances no bracket, emits no match_over and
\* calls no updateUserXP.
C5_OutsiderReportIsDiscarded ==
    [][ \A sock \in Sockets, c \in {"AAAA", NoSuchRoom} :
            ~IsParticipant(sock, c) =>
                /\ \A claim \in {"user", "opponent"} :
                    GameOver(Obs, sock, c, TRUE, claim) => NothingReported
                /\ \A i \in WinReports :
                    /\ i[1] = sock /\ i[2] = c
                    /\ TournamentMatchWin(Obs, i[1], i[2], i[3], i[4], i[5], i[6])
                    => NothingReported
      ]_vars

\* C6: a game_over or a tournament_match_win that names an existing room,
\* from a connection that is not that of one of its players, changes no
\* state: no teardown of the room is scheduled, and rooms, subscriptions and
\* tournaments stay as they were.
C6_OutsiderReportChangesNothing ==
    [][ \A sock \in Sockets, c \in RoomIds :
            RoomIndex(rooms, c) # 0 /\ ~IsParticipant(sock, c) =>
                /\ \A claim \in {"user", "opponent"} :
                    GameOver(Obs, sock, c, TRUE, claim)
                        => UNCHANGED <<tournaments, tTimers, rooms, rTimers, subs>>
                /\ \A i \in WinReports :
                    /\ i[1] = sock /\ i[2] = c
                    /\ TournamentMatchWin(Obs, i[1], i[2], i[3], i[4], i[5], i[6])
                    => UNCHANGED <<tournaments, tTimers, rooms, rTimers, subs>>
      ]_vars


\* the storedIds of a players array
IdsOf(players) == {players[k].storedId : k \in 1..Len(players)}

\* C11: for a room of two and a storedId that is neither of them, on whatever
\* connection, join_room emits one thing, the room-full error to the joining
\* connection, and leaves the rooms array (players, seats, connections,
\* playerOneState, messages) exactly as it is.
C11_FullRoomRefusesStranger ==
    \A i \in 1..Len(rooms) :
        Len(rooms[i].players) = 2 =>
            \A sock \in Sockets, sid \in (StoredIds \cup {Outsider}) \ IdsOf(rooms[i].players) :
                /\ JoinedEmits(rooms[i], sock, sid, subs \cup {<<sock, rooms[i].room_id>>})
                        = <<ToSocket(sock, "error", RoomFull)>>
                /\ WithPlayers(rooms, rooms[i].room_id,
                               JoinedPlayers(rooms[i].players, sock, sid)) = rooms

\* A on connection s1 has just been refused by the room of B and C
C11_Witness ==
    /\ out = <<ToSocket("s1", "error", RoomFull)>>
    /\ \E i \in 1..Len(rooms) :
        /\ IdsOf(rooms[i].players) = {"B", "C"}
        /\ \A k \in 1..2 : rooms[i].players[k].socketId # "s1"

\* C12: a join_room whose room_id has not exactly 4 characters (a missing
\* room_id included) emits the invalid-link error to the caller and nothing
\* else, and changes nothing: rooms, subscriptions, tournaments and timers
\* stay as they are.
C12_InvalidCodeChangesNothing ==
    [][ \A jn \in SJoins :
            /\ Len(jn[2]) # 4
            /\ JoinRoom(ObsS, jn[1], jn[2], jn[3], FALSE, NoMatchId, Missing)
            => /\ out' = <<ToSocket(jn[1], "error", InvalidLink)>>
               /\ UNCHANGED <<tournaments, tTimers, rooms, rTimers, subs>>
      ]_vars

\* connection s3 has just been refused for its room_id while a room exists,
\* and s3 is subscribed to no topic
C12_Witness ==
    /\ out = <<ToSocket("s3", "error", InvalidLink)>>
    /\ rooms # <<>>
    /\ \A sub \in subs : sub[1] # "s3"


\* an emission of sendUpdatedState
IsUpdate(e) == "rcpt" \in DOMAIN e /\ e.ev = "dispatch"

\* C13: reverseState applied twice gives the state back, for every state a
\* client submits and every state a room stores; and the dispatch of
\* sendUpdatedState carries the stored playerOneState as playerOneState and,
\* as playerTwoState, a state whose reverse is the stored playerOneState.
C13_ReverseIsInvolution ==
    /\ \A st \in SubmittedStates : ReverseState(ReverseState(st)) = st
    /\ \A i \in 1..Len(rooms) :
            ReverseState(ReverseState(rooms[i].playerOneState)) = rooms[i].playerOneState
    /\ \A k \in 1..Len(out) :
            IsUpdate(out[k]) =>
                LET room == rooms[RoomIndex(rooms, out[k].room)]
                IN /\ out[k].payload.playerOneState = room.playerOneState
                   /\ ReverseState(out[k].payload.playerTwoState) = room.playerOneState

\* an update has just been dispatched whose two views differ in hands and turn
C13_Witness ==
    /\ Len(out) = 1
    /\ IsUpdate(out[1])
    /\ out[1].payload.playerOneState.userCards = <<>>
    /\ out[1].payload.playerTwoState.userCards = <<"c1", "c2">>
    /\ out[1].payload.playerTwoState.whoIsToPlay = "user"


\* the room's player on connection sock, Undefined when there is none
PlayerOn(room, sock) == Find(room.players, LAMBDA p : p.socketId = sock)

\* C14: when a player of room AAAA submits a state, the room stores the
\* submitted state itself if the submitter sits in seat "one" and its reverse
\* if the submitter sits in seat "two", whatever the player field of the
\* submitted state says.
C14_StoredBySubmittersSeat ==
    [][ \A k \in Sockets, st \in SubmittedStates :
            LET i == RoomIndex(rooms, "AAAA")
                me == PlayerOn(rooms[i], k)
            IN (/\ i # 0
                /\ Truthy(me)
                /\ SendUpdatedState(ObsU, k, st, "AAAA"))
               => rooms'[i].playerOneState =
                        IF me.player = "one" THEN st ELSE ReverseState(st)
      ]_vars


\* C15: the dispatch of sendUpdatedState never goes to the connection that
\* submitted the state, and goes to every other player of the room whose
\* connection is still on the room's topic; a sendUpdatedState for a room_id
\* that names no room changes nothing and emits nothing.
C15_NoEchoToSubmitter ==
    [][ \A k \in Sockets, st \in SubmittedStates, c \in {"AAAA", NoSuchRoom} :
            SendUpdatedState(ObsU, k, st, c) =>
                IF RoomIndex(rooms, c) = 0
                THEN /\ out' = <<>>
                     /\ UNCHANGED <<tournaments, tTimers, rooms, rTimers, subs>>
                ELSE /\ Len(out') = 1
                     /\ IsUpdate(out'[1])
                     /\ k \notin out'[1].rcpt
                     /\ LET players == rooms[RoomIndex(rooms, c)].players
                        IN \A n \in 1..Len(players) :
                            /\ players[n].socketId # k
                            /\ <<players[n].socketId, c>> \in subs
                            => players[n].socketId \in out'[1].rcpt
      ]_vars

\* B on s2 has just received the update A submitted from s1, and s1 has not
C15_Witness ==
    /\ Len(out) = 1
    /\ IsUpdate(out[1])
    /\ out[1].rcpt = {"s2"}
    /\ <<"s1", "AAAA">> \in subs
    /\ \E i \in 1..Len(rooms) :
        /\ Len(rooms[i].players) = 2
        /\ rooms[i].players[1].socketId = "s1"
        /\ rooms[i].players[2].socketId = "s2"


\* the matches of round 1, in the order of tournament.matches
RoundOne(t) == SelectSeq(t.matches, LAMBDA m : m.round = 1)

\* match i of round 1 has the players at positions 2i and 2i+1 as p1 and p2,
\* null where the players array ends
PairedInJoinOrder(t) ==
    \A i \in 0..(Len(RoundOne(t)) - 1) :
        LET m == RoundOne(t)[i + 1]
        IN /\ m.id = MatchId(t.id, 1, i)
           /\ m.p1 = t.players[2 * i + 1]
           /\ m.p2 = IF 2 * i + 2 <= Len(t.players) THEN t.players[2 * i + 2] ELSE Null

\* a join, which a known storedId makes to come back, keeps every player at
\* its position
JoinKeepsPositions(t) ==
    \A sock \in Sockets, sid \in StoredIds \cup {Outsider} :
        LET after == JoinTournament(t, Player(sid, sock, Missing), NoDraw).t
        IN /\ Len(after.players) >= Len(t.players)
           /\ \A k \in 1..Len(t.players) :
                after.players[k].storedId = t.players[k].storedId

\* C16 as stated: a started tournament of size n has exactly n/2 matches in
\* round 1, match i pairing the players at join positions 2i and 2i+1, and a
\* join of a known storedId leaves the positions alone.
C16_AsStated ==
    \A tid \in DOMAIN tournaments :
        LET t == tournaments[tid]
        IN /\ t.status # "waiting" =>
                /\ 2 * Len(RoundOne(t)) = t.size
                /\ PairedInJoinOrder(t)
           /\ JoinKeepsPositions(t)

\* C16: a started tournament of size n >= 2 has exactly n/2 matches in round
\* 1 and one of size 1 has one match, of its only player against null; match
\* i pairs the players at join positions 2i and 2i+1 as p1 and p2; and a join
\* of a known storedId, before the start or after it, leaves every player at
\* its position.
C16_RoundOnePairsInJoinOrder ==
    \A tid \in DOMAIN tournaments :
        LET t == tournaments[tid]
        IN /\ t.status # "waiting" =>
                /\ Len(RoundOne(t)) = IF t.size = 1 THEN 1 ELSE t.size \div 2
                /\ PairedInJoinOrder(t)
           /\ JoinKeepsPositions(t)

\* a tournament of 4 has started with A against B and C against D, A being
\* on the connection it came back on
C16_Witness ==
    \E tid \in DOMAIN tournaments :
        LET t == tournaments[tid]
        IN /\ t.size = 4
           /\ t.status = "active"
           /\ Len(t.matches) = 2
           /\ t.matches[1].p1.storedId = "A" /\ t.matches[1].p1.socketId = "s2"
           /\ t.matches[1].p2.storedId = "B"
           /\ t.matches[2].p1.storedId = "C"
           /\ t.matches[2].p2.storedId = "DELTA"


\* the matches of round r, in the order of tournament.matches
RoundMatches(t, r) == SelectSeq(t.matches, LAMBDA m : m.round = r)

\* C17: in every tournament, match j of round r+1 has the winner of match 2j
\* of round r as p1 and the winner of match 2j+1 as p2 (null when round r has
\* no such match), in whatever order the results of round r were reported.
C17_NextRoundFromWinners ==
    \A tid \in DOMAIN tournaments :
        LET t == tournaments[tid]
        IN \A r \in 1..t.round :
            LET cur == RoundMatches(t, r)
                nxt == RoundMatches(t, r + 1)
            IN \A j \in 0..(Len(nxt) - 1) :
                /\ 2 * j + 1 <= Len(cur)
                /\ nxt[j + 1].p1 = cur[2 * j + 1].winner
                /\ nxt[j + 1].p2 = IF 2 * j + 2 <= Len(cur)
                                   THEN cur[2 * j + 2].winner ELSE Null


\* C18: a tournament is waiting exactly while it has fewer players than its
\* size; a tournament that is not waiting has size players; and an active
\* tournament has matches. No state has a full tournament still waiting or
\* an active one without matches: the join that fills it starts it.
C18_WaitingIffNotFull ==
    \A tid \in DOMAIN tournaments :
        LET t == tournaments[tid]
        IN /\ t.status \in {"waiting", "active", "completed"}
           /\ t.status = "waiting" <=> Len(t.players) < t.size
           /\ t.status # "waiting" => Len(t.players) = t.size
           /\ t.status = "active" => t.matches # <<>>
           /\ t.status = "waiting" => t.matches = <<>>

\* the join of B has just filled a tournament of 2: it is active, its match
\* exists and both players have been told
C18_Witness ==
    /\ \E tid \in DOMAIN tournaments :
        LET t == tournaments[tid]
        IN /\ t.size = 2
           /\ Len(t.players) = 2
           /\ t.status = "active"
           /\ Len(t.matches) = 1
           /\ ~Truthy(t.matches[1].winner)
    /\ Len(out) = 2
    /\ \A k \in 1..2 : out[k].ev = "tournament_match_ready"


\* the record v as it is once storedId sid has moved to connection sock
Rebound(v, sid, sock) ==
    IF Truthy(v) /\ v.storedId = sid THEN [v EXCEPT !.socketId = sock] ELSE v

\* C19: in every tournament, waiting, active or completed, a joinTournament of
\* a storedId that is among the players succeeds from any connection, even
\* under another name; afterwards the player's record and the p1, p2 and
\* winner of every match that refer to the storedId carry the new
\* connection, and nothing else differs: the order and names of the players,
\* the other records, the matches' ids, rounds and room codes, the
\* tournament's round, status, size and winner.
C19_RejoinRebindsEverywhere ==
    \A tid \in DOMAIN tournaments :
        LET t == tournaments[tid]
        IN \A n \in 1..Len(t.players), sock \in Sockets :
            LET sid == t.players[n].storedId
                r == JoinTournament(t, Player(sid, sock, "Renamed"), NoDraw)
            IN /\ r.ok
               /\ r.t = [t EXCEPT
                    !.players = [k \in 1..Len(t.players) |->
                                    Rebound(t.players[k], sid, sock)],
                    !.matches = [i \in 1..Len(t.matches) |->
                                    [t.matches[i] EXCEPT
                                        !.p1 = Rebound(@, sid, sock),
                                        !.p2 = Rebound(@, sid, sock),
                                        !.winner = Rebound(@, sid, sock)]]]

\* A, who won a completed tournament on connection s1, has come back on s2:
\* its player record and the final's winner are on s2
C19_Witness ==
    \E tid \in DOMAIN tournaments :
        LET t == tournaments[tid]
        IN /\ t.status = "completed"
           /\ t.size = 2
           /\ Truthy(t.winner)
           /\ t.winner.storedId = "A" /\ t.winner.socketId = "s1"
           /\ t.players[1].storedId = "A" /\ t.players[1].socketId = "s2"
           /\ Truthy(t.matches[1].winner)
           /\ t.matches[1].winner.storedId = "A"
           /\ t.matches[1].winner.socketId = "s2"
           /\ t.matches[1].p1.socketId = "s2"


\* the tournament createTournament makes for a size of 0: waiting, and with
\* as many players as its size
NoSeats == CreateTournamentObj("T1", 0, "Cup")

\* C20: a join_tournament of a storedId that is not among the players fails
\* with "Tournament not found" when no tournament has the id, with
\* "Tournament already started" when the tournament is not waiting, and with
\* "Tournament full" when it is waiting and has as many players as its size;
\* the error goes to the caller and the tournaments stay as they are.
C20_FailedJoinChangesNothing ==
    /\ [](\A c \in JClients :
            JoinTournament(NoSeats, Player(c[2], c[1], Missing), NoDraw)
                = [t |-> NoSeats, ok |-> FALSE, msg |-> "Tournament full", out |-> <<>>])
    /\ [][ \A tid \in TIds, c \in JClients :
            /\ c[2] \notin Arrived(tid)
            /\ JoinTournamentEv(ObsJ, c[1], tid, c[2], Missing)
            => LET failsWith(msg) ==
                    /\ out' = <<ToSocket(c[1], "error", msg)>>
                    /\ UNCHANGED <<tournaments, tTimers, rooms, rTimers, subs>>
               IN IF tid \notin DOMAIN tournaments
                  THEN failsWith("Tournament not found")
                  ELSE IF tournaments[tid].status # "waiting"
                  THEN failsWith("Tournament already started")
                  ELSE IF Len(tournaments[tid].players) >= tournaments[tid].size
                  THEN failsWith("Tournament full")
                  ELSE /\ out' = <<>>
                       /\ tournaments'[tid].players =
                            Append(tournaments[tid].players,
                                   Player(c[2], c[1], "Player " \o Substr(c[2], 4)))
         ]_vars

\* B on s2 has just been refused by a started tournament it is no player of
C20_Witness ==
    /\ out = <<ToSocket("s2", "error", "Tournament already started")>>
    /\ \E tid \in DOMAIN tournaments :
        /\ tournaments[tid].status = "active"
        /\ \A n \in 1..Len(tournaments[tid].players) :
                tournaments[tid].players[n].storedId # "B"


\* C21: when reportMatchResult records a result for a match and a match of
\* the current round is still without a winner afterwards, the bracket does
\* not advance: the round, the status, the tournament's winner and the
\* matches are as before, but for the winner of the reported match, and no
\* cleanup is scheduled.
C21_OpenRoundDoesNotAdvance ==
    \A tid \in DOMAIN tournaments :
        LET t == tournaments[tid]
        IN \A i \in 1..Len(t.matches), w \in ReportedIds, rc \in CodeDraws :
            LET r == ReportMatchResult(tournaments, tid, t.matches[i].id, w, rc)
                after == r.ts[tid]
                open == \E j \in 1..Len(t.matches) :
                            /\ after.matches[j].round = t.round
                            /\ ~Truthy(after.matches[j].winner)
            IN open =>
                /\ after = [t EXCEPT !.matches[i].winner = after.matches[i].winner]
                /\ ~r.timer


\* the tournament_match_ready that tells connection sock of match m of
\* tournament tid against opp
MatchReady(tid, m, sock, opp) ==
    [ev |-> "tournament_match_ready", to |-> sock, roomId |-> m.roomCode,
     matchId |-> m.id, opponent |-> opp, tournamentId |-> tid]

\* C22: in the step that starts a tournament or moves it to a new round,
\* every match of the new current round that has no winner and has both p1
\* and p2 gets a room code, and a tournament_match_ready with the match's id
\* and code is emitted to the connection of p1 naming p2 and to the
\* connection of p2 naming p1.
C22_NewRoundIsAnnounced ==
    [][ \A tid \in DOMAIN tournaments \cap DOMAIN tournaments' :
            LET a == tournaments[tid]
                b == tournaments'[tid]
            IN ((a.status = "waiting" /\ b.status = "active") \/ b.round > a.round)
               => \A i \in 1..Len(b.matches) :
                    LET m == b.matches[i]
                    IN /\ m.round = b.round
                       /\ ~Truthy(m.winner)
                       /\ Truthy(m.p1)
                       /\ Truthy(m.p2)
                       => /\ m.roomCode # NoCode
                          /\ \E k \in 1..Len(out') :
                                out'[k] = MatchReady(tid, m, m.p1.socketId, m.p2.name)
                          /\ \E k \in 1..Len(out') :
                                out'[k] = MatchReady(tid, m, m.p2.socketId, m.p1.name)
      ]_vars



\* C23: in a step that emits match_over to a room, the call of
\* reportMatchResult for the same room and the same winner comes earlier in
\* the step; the room is in the rooms array before and after the step, so it
\* is there when match_over is emitted; its removal is pending on a timer
\* after the step; and a room leaves the array only in a step of that timer.
C23_ReportThenMatchOverThenCleanup ==
    [][ /\ \A k \in 1..Len(out') :
            out'[k].ev = "match_over" =>
                /\ \E j \in 1..(k - 1) :
                    /\ out'[j].ev = "reportMatchResult"
                    /\ out'[j].room = out'[k].room
                    /\ out'[j].winnerStoredId = out'[k].payload
                /\ RoomIndex(rooms, out'[k].room) # 0
                /\ rooms' = rooms
                /\ rTimers'[out'[k].room] = rTimers[out'[k].room] + 1
        /\ \A i \in 1..Len(rooms) :
            RoomIndex(rooms', rooms[i].room_id) = 0 =>
                rTimers'[rooms[i].room_id] = rTimers[rooms[i].room_id] - 1
      ]_vars

\* A has just been declared winner of the tournament match played in room
\* AAAA: the bracket has the result, the room is still there and its timer runs
C23_Witness ==
    /\ \E k \in 1..Len(out) :
        /\ out[k].ev = "match_over" /\ out[k].room = "AAAA" /\ out[k].payload = "A"
        /\ out[1].ev = "reportMatchResult"
    /\ \E i \in 1..Len(rooms) : rooms[i].room_id = "AAAA" /\ rooms[i].isTournament
    /\ rTimers["AAAA"] = 1
    /\ "T1" \in DOMAIN tournaments
    /\ tournaments["T1"].status = "completed"
    /\ tournaments["T1"].winner.storedId = "A"


\* C24: a tournament leaves the Map only in a step of a cleanup timer and
\* only when it is completed, never while it is waiting or active; events of
\* clients remove none; and a timer that fires for an id the Map does not
\* hold changes nothing.
C24_RemovedOnlyWhenCompleted ==
    [][ /\ \A tid \in DOMAIN tournaments :
            tid \notin DOMAIN tournaments' =>
                /\ tournaments[tid].status = "completed"
                /\ tTimers'[tid] = tTimers[tid] - 1
        /\ \A tid \in TIds :
            tid \notin DOMAIN tournaments /\ tTimers'[tid] = tTimers[tid] - 1
                => tournaments' = tournaments
      ]_vars


\* C25: a game_over or tournament_match_win that names a room of the rooms
\* array leaves the array as it is and starts a timer for the room, whatever
\* the payload says of a winner and whether or not the room has a tournament
\* link; a room leaves the array only in a step of its timer; and once a
\* timer is pending for a room, a state is reached in which the room is not
\* in the array.
C25_RoomStaysUntilTimerThenGone ==
    /\ [][ /\ \A k \in Sockets, g \in GameOvers :
                GameOver(ObsO, k, "AAAA", g[1], g[2]) /\ RoomIndex(rooms, "AAAA") # 0
                => rooms' = rooms /\ rTimers'["AAAA"] = rTimers["AAAA"] + 1
           /\ \A k \in Sockets, l \in Links, w \in OWinClaims :
                /\ TournamentMatchWin(ObsO, k, "AAAA", l[3], l[2], w[1], w[2])
                /\ RoomIndex(rooms, "AAAA") # 0
                => rooms' = rooms /\ rTimers'["AAAA"] = rTimers["AAAA"] + 1
           /\ \A c \in RoomIds :
                RoomIndex(rooms, c) # 0 /\ RoomIndex(rooms', c) = 0
                => rTimers'[c] = rTimers[c] - 1
         ]_vars
    /\ \A c \in RoomIds : (rTimers[c] > 0) ~> (RoomIndex(rooms, c) = 0)

\* a game has ended in room AAAA, which has no tournament link: the room is
\* still in the array, nothing was announced and its timer is pending
C25_Witness ==
    /\ rTimers["AAAA"] = 1
    /\ out = <<>>
    /\ \E i \in 1..Len(rooms) :
        /\ rooms[i].room_id = "AAAA"
        /\ ~rooms[i].isTournament
        /\ Len(rooms[i].players) = 2


\* the rooms in which connection sock is a player's and another player is on
\* another connection
RoomsToTell(sock) ==
    {i \in 1..Len(rooms) :
        /\ \E n \in 1..Len(rooms[i].players) : rooms[i].players[n].socketId = sock
        /\ \E n \in 1..Len(rooms[i].players) : rooms[i].players[n].socketId # sock}

\* C26: a disconnect leaves the rooms array, the tournaments and the timers
\* as they are. What it emits is one opponentOnlineStateChanged(false) for
\* each room in which the closed connection is a player's and another player
\* is on another connection, sent to a connection of that room's players
\* other than the closed one, and nothing else. A join_room by the storedId
\* of a player of the closed connection, from any connection, then gives the
\* player its record back with the seat it had.
C26_DisconnectKeepsRooms ==
    [][ \A k \in Sockets :
            Disconnect(ObsD, k) =>
                /\ UNCHANGED <<rooms, tournaments, tTimers, rTimers>>
                /\ Len(out') = Cardinality(RoomsToTell(k))
                /\ \A n \in 1..Len(out') :
                    /\ out'[n].ev = "opponentOnlineStateChanged"
                    /\ out'[n].payload = FALSE
                    /\ out'[n].to # k
                /\ \A i \in RoomsToTell(k) :
                    \E n \in 1..Len(out'), m \in 1..Len(rooms[i].players) :
                        out'[n].to = rooms[i].players[m].socketId
                /\ \A i \in 1..Len(rooms') : \A m \in 1..Len(rooms'[i].players), k2 \in Sockets :
                    LET p == rooms'[i].players[m]
                    IN p.socketId = k =>
                        JoinedPlayers(rooms'[i].players, k2, p.storedId)
                            = [rooms'[i].players EXCEPT ![m].socketId = k2]
      ]_vars

\* the connection of A, who plays B in both rooms, has just closed: B is told
\* once for each room, and both rooms still have A on s1
C26_Witness ==
    /\ out = << ToSocket("s2", "opponentOnlineStateChanged", FALSE),
                ToSocket("s2", "opponentOnlineStateChanged", FALSE) >>
    /\ Len(rooms) = 2
    /\ \A i \in 1..2 :
        /\ Len(rooms[i].players) = 2
        /\ rooms[i].players[1] = RoomPlayer("A", "s1", "one")
        /\ rooms[i].players[2] = RoomPlayer("B", "s2", "two")
    /\ \A sub \in subs : sub[1] # "s1"


\* C27: the messages of a room are never more than MaxMessages; a
\* send_message to a room puts its message last, with status sent, behind
\* the messages the room had, less the oldest when the room had MaxMessages
\* already: the room holds the most recent min(n, MaxMessages) of the n
\* messages sent to it, in the order they came.
C27_LogKeepsMostRecent ==
    /\ [](\A i \in 1..Len(rooms) : Len(rooms[i].messages) <= MaxMessages)
    /\ [](LET log == Log(rooms)
          IN /\ \A n \in 1..Len(log) : log[n].text = NextText - 1 - Len(log) + n
             /\ log # <<>> =>
                    Len(log) = IF NextText - 1 < MaxMessages THEN NextText - 1
                               ELSE MaxMessages)
    /\ [][ \A c \in MClients :
            SendMessage(ObsM, c[1], "AAAA", NextText, c[2]) /\ RoomIndex(rooms, "AAAA") # 0
            => LET old == Log(rooms)
                   new == Log(rooms')
               IN /\ new[Len(new)] = [senderId |-> c[2], text |-> NextText, status |-> "sent"]
                  /\ SubSeq(new, 1, Len(new) - 1) =
                        IF Len(old) = MaxMessages THEN Tail(old) ELSE old
         ]_vars

\* message 52 has just come: the room holds messages 3 to 52
C27_Witness ==
    /\ Len(Log(rooms)) = 50
    /\ Log(rooms)[1].text = 3
    /\ Log(rooms)[50].text = 52
    /\ Len(out) = 1
    /\ out[1].ev = "receive_message"
    /\ out[1].payload = Log(rooms)[50]


\* C28: a mark_read for a room sets to read the status of every message of
\* the room whose senderId is not the reader and leaves the reader's own
\* messages, and everything else of the room, as they are; it emits
\* messages_read to the room exactly when the status of some message
\* changed; so marking again at once changes nothing and emits nothing.
C28_MarkReadOthersOnly ==
    [][ \A k \in Sockets, user_id \in Readers :
            MarkRead(ObsR, k, "AAAA", user_id) /\ RoomIndex(rooms, "AAAA") # 0
            => LET i == RoomIndex(rooms, "AAAA")
                   old == rooms[i].messages
                   new == rooms'[i].messages
               IN /\ rooms' = [rooms EXCEPT ![i].messages = new]
                  /\ Len(new) = Len(old)
                  /\ \A n \in 1..Len(old) :
                        new[n] = IF old[n].senderId = user_id THEN old[n]
                                 ELSE [old[n] EXCEPT !.status = "read"]
                  /\ (out' = <<ToRoom("AAAA", "messages_read", user_id)>>) <=> new # old
                  /\ out' = <<>> <=> new = old
                  /\ Marked(new, user_id) = new
                  /\ ~HasUpdates(new, user_id)
      ]_vars

\* B has just read the chat: the message of A is read, B's own is as it was
\* sent, and the room has been told
C28_Witness ==
    /\ out = <<ToRoom("AAAA", "messages_read", "B")>>
    /\ \E n, m \in 1..Len(Log(rooms)) :
        /\ Log(rooms)[n].senderId = "A" /\ Log(rooms)[n].status = "read"
        /\ Log(rooms)[m].senderId = "B" /\ Log(rooms)[m].status = "sent"


\* the state a new room starts with
FreshState ==
    [userCards |-> InitializeDeck.userCards, opponentCards |-> InitializeDeck.opponentCards,
     whoIsToPlay |-> "user", player |-> "one"]

\* what both statements of C29 say of the join that opens a room and of the
\* seat and the state of the second player
FirstAndSecondJoin(c, room_id) ==
    LET i == RoomIndex(rooms, room_id)
    IN IF i = 0
       THEN /\ Len(rooms') = Len(rooms) + 1
            /\ rooms'[Len(rooms')].room_id = room_id
            /\ rooms'[Len(rooms')].players = <<RoomPlayer(c[2], c[1], "one")>>
            /\ rooms'[Len(rooms')].playerOneState = FreshState
            /\ out' = <<ToSocket(c[1], "dispatch", FreshState)>>
       ELSE Len(rooms[i].players) = 1 /\ rooms[i].players[1].storedId # c[2]
            => /\ rooms'[i].players = <<rooms[i].players[1], RoomPlayer(c[2], c[1], "two")>>
               /\ rooms'[i].playerOneState = rooms[i].playerOneState
               /\ out'[1] = ToSocket(c[1], "dispatch", ReverseState(rooms[i].playerOneState))

\* whether the step's emissions tell connection sock that its opponent is online
Told(sock) ==
    \E n \in 1..Len(out') : out'[n] = ToSocket(sock, "opponentOnlineStateChanged", TRUE)

Addresses == {"A", "B"}
XPs == {0, 10}
MaxGames == 3
MaxInserts == 2
PaidStatuses == {"PAID_RETRY"}

NextX ==
    \/ \E a \in Addresses :
        /\ Pending(a) < MaxInserts
        /\ CreateUserIfNotExists(a)
    \/ \E a \in Addresses : CreateUserInsert(a)
    \/ \E a \in Addresses, x \in XPs, w \in BOOLEAN :
        /\ a \in DOMAIN users => users[a].games_played < MaxGames
        /\ RunUpdateUserXP(a, x, w)
    \/ \E a \in Addresses, st \in PaidStatuses : UpdateUserMatchStatus(a, st)

SpecX == Init /\ [][NextX]_vars

\* C30: updateUserXP(address, x, isWin) on an existing user adds x to xp, 1
\* to games_played, 1 to wins exactly when isWin, and sets last_match_status
\* to WON when isWin and to LOST otherwise; every other row is unchanged and
\* no row is added; the INSERT of createUserIfNotExists makes a row with xp 0
\* and wins 0 and changes no other row, so that one update with (10, true) of
\* a user just created leaves xp 10, wins 1 and status WON.
C30_UpdateUserXPChangesOneRow ==
    [][ /\ \A a \in Addresses :
            CreateUserInsert(a) /\ a \notin DOMAIN users
            => /\ users'[a].xp = 0 /\ users'[a].wins = 0 /\ users'[a].games_played = 0
               /\ \A b \in DOMAIN users : users'[b] = users[b]
        /\ \A a \in Addresses, x \in XPs, w \in BOOLEAN :
            RunUpdateUserXP(a, x, w) /\ a \in DOMAIN users
            => /\ DOMAIN users' = DOMAIN users
               /\ users'[a].address = a
               /\ users'[a].xp = users[a].xp + x
               /\ users'[a].games_played = users[a].games_played + 1
               /\ users'[a].wins = IF w THEN users[a].wins + 1 ELSE users[a].wins
               /\ users'[a].last_match_status = IF w THEN "WON" ELSE "LOST"
               /\ \A b \in DOMAIN users \ {a} : users'[b] = users[b]
               /\ users[a].games_played = 0 /\ x = 10 /\ w
                  => /\ users'[a].xp = 10
                     /\ users'[a].wins = 1
                     /\ users'[a].last_match_status = "WON"
      ]_vars

\* A was created and updated once with (10, true) while B's row, created
\* too, is as it was made
C30_Witness ==
    /\ DOMAIN users = {"A", "B"}
    /\ users["A"] = [address |-> "A", xp |-> 10, games_played |-> 1, wins |-> 1,
                     last_match_status |-> "WON"]
    /\ users["B"] = NewUser("B")

\* whether the winner recorded for match m is one of the two seated in it
WinnerIsSeated(m) ==
    /\ Truthy(m.winner)
    /\ \/ Truthy(m.p1) /\ m.p1.storedId = m.winner.storedId
       \/ Truthy(m.p2) /\ m.p2.storedId = m.winner.storedId

\* C31: in every reachable state the winner recorded for a match is either
\* absent (null) or one of the match's own p1 and p2: never undefined, and
\* never a participant of the tournament who is seated in another match.
C31_WinnerIsOwnParticipant ==
    \A tid \in DOMAIN tournaments :
        \A i \in 1..Len(tournaments[tid].matches) :
            LET m == tournaments[tid].matches[i]
            IN m.winner = Null \/ WinnerIsSeated(m)

\* whether room carries a tournament link
IsLinked(room) ==
    room.isTournament /\ room.tournamentId # Missing /\ room.matchId # NoMatchId

\* C32: whenever a room carries a tournament link, the linked match exists,
\* the room's id is the roomCode generated for that match, and every player
\* of the room is the match's p1 or p2.
C32_LinkedRoomIsItsMatch ==
    \A i \in 1..Len(rooms) :
        IsLinked(rooms[i])
        => /\ rooms[i].tournamentId \in DOMAIN tournaments
           /\ LET t == tournaments[rooms[i].tournamentId]
                  k == MatchIndex(t, rooms[i].matchId)
              IN /\ k # 0
                 /\ t.matches[k].roomCode = rooms[i].room_id
                 /\ \A n \in 1..Len(rooms[i].players) :
                        \/ Truthy(t.matches[k].p1)
                           /\ t.matches[k].p1.storedId = rooms[i].players[n].storedId
                        \/ Truthy(t.matches[k].p2)
                           /\ t.matches[k].p2.storedId = rooms[i].players[n].storedId

\* C33: every match_over sent to a room that carries a tournament link names
\* the winner recorded in the bracket for the linked match; so two reports
\* for one match never yield match_over messages naming different winners.
C33_MatchOverNamesRecordedWinner ==
    \A n \in 1..Len(out) :
        out[n].ev = "match_over" /\ RoomIndex(rooms, out[n].room) # 0
        => LET room == rooms[RoomIndex(rooms, out[n].room)]
           IN IsLinked(room) /\ room.tournamentId \in DOMAIN tournaments
              /\ MatchIndex(tournaments[room.tournamentId], room.matchId) # 0
              => LET t == tournaments[room.tournamentId]
                     m == t.matches[MatchIndex(t, room.matchId)]
                 IN Truthy(m.winner) /\ m.winner.storedId = out[n].payload

\* the winner recorded in the map ts for the match a reportMatchResult call
\* names: undefined when there is no such match
RecordedWinner(ts, call) ==
    IF call.tournamentId \in DOMAIN ts
       /\ MatchIndex(ts[call.tournamentId], call.matchId) # 0
    THEN ts[call.tournamentId].matches[
            MatchIndex(ts[call.tournamentId], call.matchId)].winner
    ELSE Undefined

\* C34: a handler that reports a result for a match that already has a
\* winner issues no updateUserXP call, and the winner's update a handler
\* issues is for the winner the bracket records for the reported match.
C34_XpOncePerMatch ==
    [][ \A n \in 1..Len(out') :
            out'[n].ev = "reportMatchResult"
            => /\ Truthy(RecordedWinner(tournaments, out'[n]))
                  => \A j \in 1..Len(out') : out'[j].ev # "updateUserXP"
               /\ \A j \in 1..Len(out') :
                    out'[j].ev = "updateUserXP" /\ out'[j].isWin
                    => /\ Truthy(RecordedWinner(tournaments', out'[n]))
                       /\ RecordedWinner(tournaments', out'[n]).storedId = out'[j].address
      ]_vars

\* the position of a status in waiting, active, completed
StatusRank(st) == IF st = "waiting" THEN 1 ELSE IF st = "active" THEN 2 ELSE 3

\* the identity of a player value: its storedId, or the value when it is none
Identity(v) == IF Truthy(v) THEN [storedId |-> v.storedId] ELSE v

\* the matches of t by id, round, seated identities and winner's identity
Bracket(t) ==
    [i \in 1..Len(t.matches) |->
        [id |-> t.matches[i].id, round |-> t.matches[i].round,
         p1 |-> Identity(t.matches[i].p1), p2 |-> Identity(t.matches[i].p2),
         winner |-> Identity(t.matches[i].winner)]]

\* the step puts a newly created tournament under the id
CreatedAnew(tid) ==
    tid \notin DOMAIN tournaments
    \/ (tournaments'[tid].status = "waiting" /\ tournaments'[tid].players = <<>>)

\* C35: the status of a tournament only moves forward, waiting to active to
\* completed; once it is completed no event changes its status, the identity
\* of its winner, its round or its matches, and no further cleanup timer is
\* scheduled for it; the winner of a completed tournament is a participant
\* and is the winner of its last match.
C35_CompletedIsStable ==
    /\ [][ \A tid \in DOMAIN tournaments' :
            ~CreatedAnew(tid)
            => LET a == tournaments[tid]
                   b == tournaments'[tid]
               IN /\ StatusRank(b.status) >= StatusRank(a.status)
                  /\ a.status = "completed"
                     => /\ b.status = "completed"
                        /\ Identity(b.winner) = Identity(a.winner)
                        /\ b.round = a.round
                        /\ Bracket(b) = Bracket(a)
                        /\ tTimers'[tid] <= tTimers[tid]
         ]_vars
    /\ [](\A tid \in DOMAIN tournaments :
            LET t == tournaments[tid]
            IN t.status = "completed"
               => /\ Truthy(t.winner)
                  /\ \E i \in 1..Len(t.players) : t.players[i].storedId = t.winner.storedId
                  /\ Identity(t.matches[Len(t.matches)].winner) = Identity(t.winner))

\* the storedIds seated in match m
Seated(m) ==
    (IF Truthy(m.p1) THEN {m.p1.storedId} ELSE {})
    \cup (IF Truthy(m.p2) THEN {m.p2.storedId} ELSE {})

\* C36: in every reachable state of a started tournament of size 2^k, k >= 1,
\* the match ids are pairwise distinct, every round r up to the current one
\* has exactly 2^(k-r) matches, all with both seats filled, every match of an
\* earlier round has a winner, and no player is in two matches of one round.
C36_EachRoundBuiltOnce ==
    \A tid \in DOMAIN tournaments :
        LET t == tournaments[tid]
        IN t.status # "waiting" /\ t.size >= 2
           => /\ \A i, j \in 1..Len(t.matches) :
                    t.matches[i].id = t.matches[j].id => i = j
              /\ \A r \in 1..t.round :
                    /\ Len(RoundMatches(t, r)) * Pow2(r) = t.size
                    /\ \A i \in 1..Len(RoundMatches(t, r)) :
                        /\ Truthy(RoundMatches(t, r)[i].p1)
                        /\ Truthy(RoundMatches(t, r)[i].p2)
                        /\ r < t.round => Truthy(RoundMatches(t, r)[i].winner)
                    /\ \A i, j \in 1..Len(RoundMatches(t, r)) :
                        i # j => Seated(RoundMatches(t, r)[i])
                                 \cap Seated(RoundMatches(t, r)[j]) = {}

\* a visitor: room AAAA is joined by A on s1 and B on s2, and s3 is the
\* connection of no player; every connection submits states, writes and
\* reads messages under either player's id, and ends the game
ObsV == {"dispatch", "receive_message", "messages_read"}
VStates == {st \in SubmittedStates : st.userCards = <<"c1", "c2">>}

NextV ==
    \/ \E c \in MClients : JoinRoom(ObsV, c[1], "AAAA", c[2], FALSE, NoMatchId, Missing)
    \/ \E k \in Sockets, st \in VStates : SendUpdatedState(ObsV, k, st, "AAAA")
    \/ \E k \in Sockets, sid \in {"A", "B"} :
            /\ NextText <= MaxChat
            /\ SendMessage(ObsV, k, "AAAA", NextText, sid)
    \/ \E k \in Sockets, sid \in {"A", "B"} : MarkRead(ObsV, k, "AAAA", sid)
    \/ \E k \in Sockets :
            /\ GameOver(ObsV, k, "AAAA", FALSE, Missing)
            /\ TimersBounded'
    \/ \E c \in RoomIds : RoomCleanup(ObsV, c)

SpecV == Init /\ [][NextV]_vars

\* whether connection k is the socketId of no player of room
NoPlayerOf(room, k) == \A n \in 1..Len(room.players) : room.players[n].socketId # k

\* C37: a sendUpdatedState, send_message, mark_read or game_over event that
\* names a room and comes from a connection that is the socketId of none of
\* its players leaves the rooms (state, messages, players) as they are and
\* schedules no removal of the room.
C37_OnlyPlayersChangeRoom ==
    [][ \A k \in Sockets :
            RoomIndex(rooms, "AAAA") # 0 /\ NoPlayerOf(rooms[RoomIndex(rooms, "AAAA")], k)
            => ( ( \/ \E st \in VStates : SendUpdatedState(ObsV, k, st, "AAAA")
                   \/ \E sid \in {"A", "B"} : SendMessage(ObsV, k, "AAAA", NextText, sid)
                   \/ \E sid \in {"A", "B"} : MarkRead(ObsV, k, "AAAA", sid)
                   \/ GameOver(ObsV, k, "AAAA", FALSE, Missing) )
                 => rooms' = rooms /\ rTimers' = rTimers )
      ]_vars

\* C38: a join_room that is refused with the room-is-full error subscribes
\* the refused connection to nothing: the subscriptions are as before, so the
\* connection gets none of the room's later broadcasts because of it.
C38_RefusedJoinSubscribesNothing ==
    [][ \A j \in SJoins :
            /\ JoinRoom(ObsS, j[1], j[2], j[3], FALSE, NoMatchId, Missing)
            /\ out' = <<ToSocket(j[1], "error", RoomFull)>>
            => subs' = subs
      ]_vars

\* C39: a timer removes only the session whose end scheduled it: when a
\* room is created under a room_id for which timers are still pending, set by
\* events that came before the room existed, the firing of such a timer
\* leaves the new room in the rooms array.
C39_TimerSparesNewRoom ==
    [][ \A c \in RoomIds :
            /\ RoomIndex(rooms, c) = 0
            /\ RoomIndex(rooms', c) # 0
            /\ rTimers'[c] > 0
            => RoomIndex(Filtered(rooms', c), c) # 0
      ]_vars

\* whether room has a player on connection k and another player on connection to
Notifies(room, k, to) ==
    /\ \E n \in 1..Len(room.players) : room.players[n].socketId = k
    /\ \E n \in 1..Len(room.players) : room.players[n].socketId = to
    /\ to # k

\* C40: when connection k closes after the player who joined a room on it
\* has joined again from another connection (k is subscribed to the room and
\* is the socketId of none of its players), the disconnect sends no offline
\* notice on account of that room: every notice it sends to a player of the
\* room comes from another room in which k still is a player's connection.
C40_StaleDisconnectIsSilent ==
    [][ \A k \in Sockets :
            Disconnect(ObsD, k)
            => \A i \in 1..Len(rooms) :
                <<k, rooms[i].room_id>> \in subs /\ NoPlayerOf(rooms[i], k)
                => \A n \in 1..Len(out') :
                    (\E m \in 1..Len(rooms[i].players) :
                        rooms[i].players[m].socketId = out'[n].to)
                    => \E j \in 1..Len(rooms) : j # i /\ Notifies(rooms[j], k, out'[n].to)
      ]_vars

\* s1, on which A plays in room BBBB, has closed after A joined room AAAA
\* again from s3: B is told once, for room BBBB alone
C40_Witness ==
    /\ out = <<ToSocket("s2", "opponentOnlineStateChanged", FALSE)>>
    /\ \A c \in RoomIds : <<"s1", c>> \notin subs
    /\ \E i, j \in 1..Len(rooms) :
        /\ rooms[i].room_id = "AAAA"
        /\ rooms[i].players = <<RoomPlayer("A", "s3", "one"), RoomPlayer("B", "s2", "two")>>
        /\ rooms[j].room_id = "BBBB"
        /\ rooms[j].players = <<RoomPlayer("A", "s1", "one"), RoomPlayer("B", "s2", "two")>>


(***************************************************************************)
(* Every outcome of the two draws                                          *)
(***************************************************************************)
\* tournaments of two, each created on an empty server with a name or
\* without one, under every id create_tournament may
\* draw, A on s1 and B on s2, whose match gets every code notifyMatchReady
\* may draw; each player asks for its assignment again, joins the room its match names at
\* that moment, and ends the game as the winner. The match assignments and
\* the errors are observed
ObsK == {"tournament_match_ready", "error"}
KClients == {<<"s1", "A">>, <<"s2", "B">>}
\* the only match of a tournament of two
FirstMatch(tid) == MatchId(tid, 1, 0)
\* both players of the tournament are in, so that its match exists
Started(tid) == tid \in DOMAIN tournaments /\ tournaments[tid].status # "waiting"

NextK ==
    \/ \E id \in TIds, name \in {Missing, "Cup"} :
            /\ DOMAIN tournaments = {} /\ rooms = <<>>
            /\ CreateTournament(ObsK, id, 2, name)
    \/ \E tid \in TIds, c \in KClients :
            JoinTournamentEv(ObsK, c[1], tid, c[2], Missing)
    \/ \E tid \in TIds, c \in KClients :
            RequestMatchInfoEv(ObsK, c[1], tid, FirstMatch(tid))
    \/ \E tid \in TIds, c \in KClients :
            /\ Started(tid)
            /\ JoinRoom(ObsK, c[1], CodeOf(tournaments, tid, FirstMatch(tid)), c[2],
                        TRUE, FirstMatch(tid), tid)
    \/ \E c \in KClients, room_id \in RoomIds :
            /\ GameOver(ObsK, c[1], room_id, TRUE, "user")
            /\ TimersBounded'
    \/ \E tid \in TIds, c \in KClients, room_id \in RoomIds :
            /\ TournamentMatchWin(ObsK, c[1], room_id, tid, FirstMatch(tid), c[2], Missing)
            /\ TimersBounded'
    \/ \E room_id \in RoomIds : RoomCleanup(ObsK, room_id)
    \/ \E tid \in TIds : TournamentCleanup(ObsK, tid)

SpecK == Init /\ [][NextK]_vars


====
